---- MODULE Spec2Model ----
(***************************************************************************)
(* A model of dezoomify-rs: the download coordinator that drives one zoom  *)
(* level (lib.rs dezoomify_level, download_state.rs) and the in-memory     *)
(* canvas (encoder/canvas.rs).                                             *)
(*                                                                         *)
(* Time is kept relative: every timer holds the time still to wait (or the *)
(* time elapsed, capped where only a threshold is compared), and Tick lets *)
(* one unit of wall time pass.                                             *)
(***************************************************************************)
EXTENDS Integers, Sequences, FiniteSets, TLC

(* ----------------------------- bounds --------------------------------- *)
\* number of batches a zoom level yields at most
MaxBatches == 2
\* number of tile references in one batch at most
MaxBatchLen == 2
\* number of add_tile calls on a canvas at most
MaxTiles == 2

\* --parallelism, --retries, --retry-delay and --min-interval values tried
\* (the last two in clock units)
Parallelisms == {0, 1, 2}
RetryCounts == {0, 1, 2}
RetryDelays == {2}
MinIntervals == {0, 1}
\* sides of the canvases, and of the tiles added to them
CanvasSides == {1, 2}
TileSides == {1, 2}

VARIABLES
    args,            \* Arguments: parallelism, retries, retry_delay, min_interval
    size_hint,       \* ZoomLevel::size_hint() is Some
    pc,              \* where dezoomify_level is: "iter", "stream", "throttle", "done"
    state,           \* DownloadState
    progress,        \* ProgressManager: bar position and length
    batchNo,         \* batches returned by next_tile_references so far
    batchLen,        \* tile_refs.len() of the current batch
    nextIdx,         \* tile references of the batch already pulled by buffer_unordered
    flight,          \* the futures held by buffer_unordered: id -> download_tile state
    previous,        \* ZoomLevelIter: the fetch result set by set_fetch_result, if any
    throttle,        \* Throttler: time elapsed since the last release (capped)
    result,          \* what dezoomify_level returned
    finalized,       \* canvas.finalize() has returned Ok
    current,         \* the result the loop body of download_batch is handling,
                     \* if any: whose it is, Ok or Err, what went to the canvas,
                     \* and (history) how many attempts were made for the tile
                     \* and how the last one ended
    sinceStart,      \* history: time elapsed since the last fetch start
                     \* (capped at min_interval; -1 before the first start)
    lastGap,         \* history: time between the last two fetch starts
                     \* (capped at min_interval; -1 before the second start)
    tally,           \* history: the tile references handed to download_batch
                     \* so far, and the results the stream yielded, by outcome
    canvas,          \* Canvas: writer, size, image buffer, icc_profile, and the
                     \* number of add_tile calls made on it
    lastAdd,         \* history: the tile of the last add_tile call and its result
    expected,        \* history: for each canvas pixel, the pixel of the last
                     \* added tile whose rectangle covers it
    batch,           \* a batch whose results reach the canvas in any order:
                     \* the results of the batch, those not yet yielded, and
                     \* DownloadState.tile_size
    png,             \* PngEncoder: first_tile, the header written (if any),
                     \* the pixel streamer, and (history) the profiles of
                     \* the tiles added and, for each header written, the
                     \* number of add_tile calls made by then
    load,            \* get_dezoomer_result: the DezoomerInput, where the loop
                     \* is, what was fetched last, and what it returned
    auto,            \* AutoDezoomer: dezoomers, errors, successes, needs_uris,
                     \* prioritized_for_url, and the pass in progress
    prio,            \* prioritize_dezoomers_for_url: its arguments and result
    main,            \* main.rs: the arguments, where main is, its counters,
                     \* the dezoomify call in progress (its step, the
                     \* DownloadState of its level and, as history, what it
                     \* did so far) and (history) what each call returned
    fn               \* a call of a function without side effects: the
                     \* function, its arguments and, once made, its result

\* The history kept in auto: asked (a candidate returned NeedsData in this
\* pass), visited (candidates invoked in this pass), atStart (candidates
\* when the pass began), last (the last candidate invoked and its answer),
\* dropped (the candidates dropped on an error so far, with the pass),
\* succeeded (a candidate has returned Ok), and found (the candidates that
\* returned Ok so far, with the pass).

runVars == <<args, size_hint, pc, state, progress, batchNo, batchLen, nextIdx,
             flight, previous, throttle, result, finalized,
             current, sinceStart, lastGap, tally>>

canvasVars == <<canvas, lastAdd, expected, batch>>

autoVars == <<load, auto>>

vars == <<runVars, canvasVars, png, autoVars, prio, main, fn>>

\* what each part of the program leaves alone
notRun == <<canvasVars, png, autoVars, prio, main, fn>>

notCanvas == <<runVars, png, autoVars, prio, main, fn>>

notPng == <<runVars, canvasVars, autoVars, prio, main, fn>>

notAuto == <<runVars, canvasVars, png, prio, main, fn>>

notPrio == <<runVars, canvasVars, png, autoVars, main, fn>>

notMain == <<runVars, canvasVars, png, autoVars, prio, fn>>

notFn == <<runVars, canvasVars, png, autoVars, prio, main>>

None == "none"

Min(a, b) == IF a <= b THEN a ELSE b

(* --------------------------- DownloadState ---------------------------- *)
DownloadStateNew ==
    [total_tiles |-> 0, successful_tiles |-> 0, last_batch_count |-> 0,
     last_batch_successes |-> 0, tile_size |-> FALSE]

add_batch_no_reset(s, count) ==
    [s EXCEPT !.last_batch_count = count,
              !.total_tiles = s.total_tiles + count]

add_batch(s, count) ==
    [s EXCEPT !.last_batch_count = count,
              !.total_tiles = s.total_tiles + count,
              !.last_batch_successes = 0]

record_success_in_batch(s) ==
    [s EXCEPT !.last_batch_successes = s.last_batch_successes + 1,
              !.successful_tiles = s.last_batch_successes + 1]

record_success(s) ==
    [s EXCEPT !.last_batch_successes = s.last_batch_successes + 1,
              !.successful_tiles = s.successful_tiles + 1]

set_tile_size(s) == [s EXCEPT !.tile_size = TRUE]

\* a fetch result made of the counters of the whole run
create_fetch_result_totals(s) ==
    [count |-> s.total_tiles, successes |-> s.successful_tiles,
     tile_size |-> s.tile_size]

create_fetch_result(s) ==
    [count |-> s.last_batch_count, successes |-> s.last_batch_successes,
     tile_size |-> s.tile_size]

is_successful_last_batch(s) == s.last_batch_successes > 0

is_successful(s) == s.successful_tiles > 0

has_partial_failure(s) == s.last_batch_successes < s.last_batch_count

(* ------------------------- lib.rs: final result ----------------------- *)
validate_download_always(s) == "Ok"

validate_download_success(s) == IF ~is_successful(s) THEN "NoTile" ELSE "Ok"

determine_final_result(s) ==
    IF has_partial_failure(s)
    THEN [kind |-> "PartialDownload", successful_tiles |-> s.successful_tiles,
          total_tiles |-> s.total_tiles]
    ELSE [kind |-> "Ok", successful_tiles |-> 0, total_tiles |-> 0]

Outcome(kind) == [kind |-> kind, successful_tiles |-> 0, total_tiles |-> 0]

(* --------------------------- tile download ---------------------------- *)
\* One attempt (Tile::download): fetch, then post-process, then decode; the
\* attempt is Ok only when all three steps succeed.
AttemptOutcomes == {"ok", "fetch_error", "post_process_error", "decode_error"}

DownloadOkIgnoringDecode(o) == o \in {"ok", "decode_error"}

DownloadOk(o) == o = "ok"

\* TileDownloader::download_tile: retry while fewer than `retries` attempts
\* failed; the first retry waits retry_delay, each later one twice as long.
GiveUpOneEarly(failures, retries) == failures + 1 >= retries

GiveUp(failures, retries) == failures >= retries

ConstantWait(wait_time) == wait_time

NextWait(wait_time) == wait_time * 2

\* process_tile_result: what goes to the canvas for a result
process_tile_result(ok, tile_size, canvas_size) ==
    IF ok THEN "tile"
    ELSE IF tile_size /\ canvas_size THEN "empty" ELSE "dropped"

(* ---------------------------- Throttler ------------------------------- *)
\* wait() returns once min_interval has elapsed since the last release
ThrottlerReady(elapsed, min_interval) == elapsed >= min_interval

(* ------------------------- buffer_unordered --------------------------- *)
HasRoomUnbounded(inFlight, parallelism) == TRUE

HasRoomOneFewer(inFlight, parallelism) == inFlight < parallelism - 1

HasRoom(inFlight, parallelism) == inFlight < parallelism

CanStart == nextIdx < batchLen /\ HasRoom(Cardinality(DOMAIN flight), args.parallelism)

\* The stream ends once the tile references are used up and no future is
\* left; buffer_unordered only learns that the references are used up by
\* pulling one, which it does not do without a free slot.
StreamExhaustedEarly == nextIdx = batchLen /\ args.parallelism > 0

StreamExhausted ==
    nextIdx = batchLen /\ args.parallelism > 0 /\ DOMAIN flight = {}


(* ------------------------------- Vec2d -------------------------------- *)
Vec(x, y) == [x |-> x, y |-> y]

VecAdd(a, b) == Vec(a.x + b.x, a.y + b.y)

VecSub(a, b) == Vec(a.x - b.x, a.y - b.y)

VecMin(a, b) == Vec(Min(a.x, b.x), Min(a.y, b.y))

fits_inside(a, b) == a.x <= b.x /\ a.y <= b.y

(* ------------------------------- Canvas ------------------------------- *)
\* A pixel is a colour and, for RGBA, an alpha. The colour of pixel (x, y)
\* of the k-th tile is <<k, x, y>>, so that a canvas pixel tells which tile
\* pixel was copied into it; <<0, 0, 0>> is black.
Black == <<0, 0, 0>>

\* The image of Tile::empty (DynamicImage::new_rgba8) is all zero; it is
\* tile number 0.
TilePixel(tile, x, y) ==
    IF tile.k = 0 THEN [c |-> Black, a |-> 0] ELSE [c |-> <<tile.k, x, y>>, a |-> 1]

\* FromRgba: the generic canvas keeps RGBA, the JPEG canvas drops alpha
from_rgba(writer, p) == IF writer = "Jpeg" THEN [c |-> p.c] ELSE p

\* ImageBuffer::new: all samples zero
ZeroPixel(writer) == IF writer = "Jpeg" THEN [c |-> Black] ELSE [c |-> Black, a |-> 0]

Coords(size) == (0..(size.x - 1)) \X (0..(size.y - 1))

NewCanvas(writer, size) ==
    [writer |-> writer, size |-> size,
     image |-> [c \in Coords(size) |-> ZeroPixel(writer)],
     icc_profile |-> 0, adds |-> 0]

bottom_right(tile) == VecAdd(tile.size, tile.position)

\* add_tile: the first profile seen is kept
CaptureIcc(icc_profile, tile) ==
    IF icc_profile = 0 /\ tile.icc_profile # 0 THEN tile.icc_profile ELSE icc_profile

\* add_tile: the tile is refused unless its position fits inside the canvas
BottomRightAccepted(tile, canvas_size) == fits_inside(bottom_right(tile), canvas_size)

PositionAccepted(tile, canvas_size) == fits_inside(tile.position, canvas_size)

\* add_tile: the part of the tile that is copied
CopiedSizeShort(tile, canvas_size) ==
    VecSub(VecMin(bottom_right(tile), VecSub(canvas_size, Vec(1, 1))), tile.position)

CopiedSize(tile, canvas_size) ==
    VecSub(VecMin(bottom_right(tile), canvas_size), tile.position)

\* add_tile: the copy loop, as the set of <<canvas_x, canvas_y, x, y>> it visits
CopyLoop(tile, size) ==
    { <<x + tile.position.x, y + tile.position.y, x, y>> :
        x \in 0..(size.x - 1), y \in 0..(size.y - 1) }

Written(image, writer, tile, loop) ==
    [c \in DOMAIN image |->
        LET x == c[1] - tile.position.x
            y == c[2] - tile.position.y
        IN  IF <<c[1], c[2], x, y>> \in loop
            THEN from_rgba(writer, TilePixel(tile, x, y))
            ELSE image[c]]

\* the rectangle of a tile covers canvas coordinate c
Covers(tile, c) ==
    /\ tile.position.x <= c[1] /\ c[1] < tile.position.x + tile.size.x
    /\ tile.position.y <= c[2] /\ c[2] < tile.position.y + tile.size.y

(* -------------------- auto.rs: prioritisation ------------------------- *)
\* A URL is the sequence of its characters.
\* url.contains(pattern): the pattern occurs at some offset, character for
\* character
Contains(url, pattern) ==
    \E i \in 0..(Len(url) - Len(pattern)) :
        SubSeq(url, i + 1, i + Len(pattern)) = pattern

\* the table of URL patterns and their preferred dezoomers, in source order
patterns ==
    << <<<<"i", "n", "f", "o", ".", "j", "s", "o", "n">>, "iiif">>,
      <<<<"i", "i", "i", "f">>, "iiif">>,
      <<<<"m", "a", "n", "i", "f", "e", "s", "t", ".", "j", "s", "o", "n">>, "iiif">>,
      <<<<".", "d", "z", "i">>, "deepzoom">>,
      <<<<"_", "f", "i", "l", "e", "s", "/">>, "deepzoom">>,
      <<<<"?", "F", "I", "F">>, "IIPImage">>,
      <<<<"t", "i", "l", "e", "s", ".", "x", "m", "l">>, "krpano">>,
      <<<<"I", "m", "a", "g", "e", "P", "r", "o", "p", "e", "r", "t", "i", "e", "s", ".", "x", "m", "l">>, "zoomify">>,
      <<<<"T", "i", "l", "e", "G", "r", "o", "u", "p">>, "zoomify">>,
      <<<<"d", "i", "g", "i", "t", "a", "l", "c", "o", "l", "l", "e", "c", "t", "i", "o", "n", "s", ".", "n", "y", "p", "l", ".", "o", "r", "g">>, "nypl">>,
      <<<<"{", "{">>, "generic">> >>

LastMatch(url) ==
    LET m == { i \in 1..Len(patterns) : Contains(url, patterns[i][1]) }
    IN  IF m = {} THEN 0 ELSE CHOOSE i \in m : \A j \in m : i >= j

\* the first pattern of the table the URL contains names the preferred
\* dezoomer, if there is one
FirstMatch(url) ==
    LET m == { i \in 1..Len(patterns) : Contains(url, patterns[i][1]) }
    IN  IF m = {} THEN 0 ELSE CHOOSE i \in m : \A j \in m : i <= j

preferred_dezoomer(url) ==
    IF FirstMatch(url) = 0 THEN << >> ELSE <<patterns[FirstMatch(url)][2]>>

\* dezoomers.iter().position(|d| d.name() == name), 0 for None
Position(dezoomers, name) ==
    LET m == { i \in 1..Len(dezoomers) : dezoomers[i] = name }
    IN  IF m = {} THEN 0 ELSE CHOOSE i \in m : \A j \in m : i <= j

SwapToFront(dezoomers, idx) ==
    [i \in 1..Len(dezoomers) |->
        IF i = 1 THEN dezoomers[idx]
        ELSE IF i = idx THEN dezoomers[1] ELSE dezoomers[i]]

\* dezoomers.remove(idx) followed by dezoomers.insert(0, preferred)
MoveToFront(dezoomers, idx) ==
    <<dezoomers[idx]>> \o SubSeq(dezoomers, 1, idx - 1)
                      \o SubSeq(dezoomers, idx + 1, Len(dezoomers))

prioritize_dezoomers_for_url(url, dezoomers) ==
    IF preferred_dezoomer(url) = << >> THEN dezoomers
    ELSE IF Position(dezoomers, preferred_dezoomer(url)[1]) = 0 THEN dezoomers
    ELSE MoveToFront(dezoomers, Position(dezoomers, preferred_dezoomer(url)[1]))

\* all_dezoomers(false), by name
all_dezoomers ==
    <<"custom", "google_arts_and_culture", "zoomify", "iiif", "deepzoom",
      "generic", "pff", "krpano", "IIPImage", "nypl", "bulk_text">>

\* the pieces the URLs tried are put together from: the patterns, an
\* upper-cased pattern, half a pattern, and a piece that holds no pattern
Fragments ==
    { patterns[i][1] : i \in 1..Len(patterns) } \cup
    { <<"I", "M", "A", "G", "E", "P", "R", "O", "P", "E", "R", "T", "I", "E", "S", ".", "X", "M", "L">>,
      <<"{">>,
      <<"h", "t", "t", "p", "s", ":", "/", "/", "e", "x", "a", "m", "p", "l", "e", ".", "c", "o", "m", "/">> }

\* number of pieces in a URL at most
MaxFragments == 2

RECURSIVE Urls(_)
Urls(n) ==
    IF n = 0 THEN { << >> }
    ELSE Urls(n - 1) \cup { u \o f : u \in Urls(n - 1), f \in Fragments }

Without(dezoomers, name) == SelectSeq(dezoomers, LAMBDA d : d # name)

\* the lists tried: the registry, the registry with one name dropped, and
\* such a list after an earlier prioritisation
DezoomerLists ==
    LET base == { all_dezoomers } \cup
                { Without(all_dezoomers, all_dezoomers[i]) : i \in 1..Len(all_dezoomers) }
    IN  base \cup { prioritize_dezoomers_for_url(patterns[i][1], l) :
                       l \in base, i \in {4, 11} }

(* ------------------- auto.rs: AutoDezoomer; lib.rs -------------------- *)
\* the URIs of the runs tried: one that matches "iiif", one that matches
\* ".dzi", one that matches nothing
AutoUris == { patterns[2][1], patterns[4][1], <<"x">> }

\* the candidates of the runs tried: three of the registry, in its order
AutoLists ==
    { <<"zoomify", "iiif", "deepzoom">>, <<"custom", "iiif", "generic">>,
      <<"iiif", "deepzoom">> }

\* number of calls get_dezoomer_result makes to its dezoomer at most
MaxCalls == 3

\* number of times a candidate answers NeedsData at most, in the runs in
\* which the candidates stop asking
MaxAsks == 2

\* the calls such a run needs at most: one for each time the candidates
\* ask, one for each URI then left pending, and the last one
MaxPasses == MaxAsks + Cardinality(AutoUris) + 1

\* what a dezoomer returns: Ok, Err(NeedsData{uri}) or another error
Response(kind, uri, error) == [kind |-> kind, uri |-> uri, error |-> error]

Responses ==
    { Response("Ok", << >>, "") } \cup
    { Response("NeedsData", u, "") : u \in AutoUris } \cup
    { Response("Err", << >>, e) : e \in {"WrongDezoomer", "Other"} }

\* what AutoDezoomer returns: Ok(levels or result), Err(NeedsData{uri}) or
\* Err(AutoDezoomerError(errors))
Returned(kind, uri, errors, value) ==
    [kind |-> kind, uri |-> uri, errors |-> errors, value |-> value]

Range(q) == { q[n] : n \in DOMAIN q }

\* AutoDezoomer::default, over the candidates given
NewAuto(dezoomers) ==
    [dezoomers |-> dezoomers, errors |-> << >>, successes |-> << >>,
     needs_uris |-> << >>, prioritized_for_url |-> << >>,
     i |-> 0, asked |-> FALSE, visited |-> 0, atStart |-> 0, last |-> << >>,
     dropped |-> << >>, succeeded |-> FALSE, found |-> << >>]

prioritize_for_url_if_needed(a, url) ==
    IF a.prioritized_for_url # <<url>>
    THEN [a EXCEPT !.dezoomers = prioritize_dezoomers_for_url(url, a.dezoomers),
                   !.prioritized_for_url = <<url>>]
    ELSE a

PushAlways(needs_uris, uri) == Append(needs_uris, uri)

\* if !self.needs_uris.contains(&uri) { self.needs_uris.push(uri) }
PushUnique(needs_uris, uri) ==
    IF uri \in Range(needs_uris) THEN needs_uris ELSE Append(needs_uris, uri)

RecordLastError(errors, name, e) == <<[name |-> name, error |-> e]>>

\* self.errors.push((dezoomer.name(), e))
RecordError(errors, name, e) == Append(errors, [name |-> name, error |-> e])

\* self.dezoomers.remove(i), i counted from 0
RemoveAt(dezoomers, i) ==
    SubSeq(dezoomers, 1, i) \o SubSeq(dezoomers, i + 2, Len(dezoomers))

\* the body of the while loop of zoom_levels for the answer of candidate i
zoom_levels_step(a, resp) ==
    LET name == a.dezoomers[a.i + 1]
    IN  IF resp.kind = "Ok"
        THEN [a EXCEPT !.successes = Append(@, name),
                       !.dezoomers = RemoveAt(@, a.i)]
        ELSE IF resp.kind = "NeedsData"
        THEN [a EXCEPT !.needs_uris = PushUnique(@, resp.uri), !.i = @ + 1]
        ELSE [a EXCEPT !.errors = RecordError(@, name, resp.error),
                       !.dezoomers = RemoveAt(@, a.i)]

\* the same for dezoomer_result, whose Ok arm returns instead
dezoomer_result_step(a, resp) ==
    LET name == a.dezoomers[a.i + 1]
    IN  IF resp.kind = "Ok" THEN a
        ELSE IF resp.kind = "NeedsData"
        THEN [a EXCEPT !.needs_uris = PushUnique(@, resp.uri), !.i = @ + 1]
        ELSE [a EXCEPT !.errors = RecordError(@, name, resp.error),
                       !.dezoomers = RemoveAt(@, a.i)]

\* zoom_levels giving up the levels it holds when it asks for data
zoom_levels_end_forgetting(a) ==
    IF a.needs_uris # << >>
    THEN [auto |-> [a EXCEPT !.needs_uris = SubSeq(@, 1, Len(@) - 1), !.successes = << >>],
          ret |-> Returned("NeedsData", a.needs_uris[Len(a.needs_uris)], << >>, << >>)]
    ELSE IF a.successes = << >>
    THEN [auto |-> [a EXCEPT !.errors = << >>],
          ret |-> Returned("Err", << >>, a.errors, << >>)]
    ELSE [auto |-> [a EXCEPT !.successes = << >>],
          ret |-> Returned("Ok", << >>, << >>, a.successes)]

\* what follows the while loop of zoom_levels: the new fields and the result
zoom_levels_end(a) ==
    IF a.needs_uris # << >>
    THEN [auto |-> [a EXCEPT !.needs_uris = SubSeq(@, 1, Len(@) - 1)],
          ret |-> Returned("NeedsData", a.needs_uris[Len(a.needs_uris)], << >>, << >>)]
    ELSE IF a.successes = << >>
    THEN [auto |-> [a EXCEPT !.errors = << >>],
          ret |-> Returned("Err", << >>, a.errors, << >>)]
    ELSE [auto |-> [a EXCEPT !.successes = << >>],
          ret |-> Returned("Ok", << >>, << >>, a.successes)]

\* dezoomer_result leaving the URI it asks for in the pending list
dezoomer_result_end_peeking(a) ==
    IF a.needs_uris # << >>
    THEN [auto |-> a,
          ret |-> Returned("NeedsData", a.needs_uris[Len(a.needs_uris)], << >>, << >>)]
    ELSE [auto |-> [a EXCEPT !.errors = << >>],
          ret |-> Returned("Err", << >>, a.errors, << >>)]

dezoomer_result_end(a) ==
    IF a.needs_uris # << >>
    THEN [auto |-> [a EXCEPT !.needs_uris = SubSeq(@, 1, Len(@) - 1)],
          ret |-> Returned("NeedsData", a.needs_uris[Len(a.needs_uris)], << >>, << >>)]
    ELSE [auto |-> [a EXCEPT !.errors = << >>],
          ret |-> Returned("Err", << >>, a.errors, << >>)]

\* fetch_uri(..).into(): the bytes, or the fetch error, as page contents
Contents(kind, uri) == [kind |-> kind, of |-> uri]

IntoContents(fetched) ==
    Contents(IF fetched.ok THEN "Success" ELSE "Error", fetched.uri)

NextInputSameUri(i, uri, contents) == [uri |-> i.uri, contents |-> contents]

\* i.uri = uri; i.contents = contents
NextInput(i, uri, contents) == [uri |-> uri, contents |-> contents]

\* get_dezoomer_result, entered with the uri given
NewLoad(entry, uri) ==
    [entry |-> entry, i |-> [uri |-> uri, contents |-> Contents("Unknown", << >>)],
     pc |-> "call", needs |-> << >>, fetched |-> << >>, ret |-> << >>, calls |-> 0]

(* ----------------------------- PngEncoder ----------------------------- *)
\* the ICC profiles a tile may carry; 0 stands for no profile
Profiles == {1, 2}

\* PngEncoder::new
NewPng(size) ==
    [size |-> size, file |-> TRUE, pixel_streamer |-> FALSE, first_tile |-> TRUE,
     header |-> << >>, tiles |-> << >>, res |-> "none", finalized |-> FALSE,
     headers |-> << >>]

\* write_header_with_profile without the take: the file stays in place
write_header_keeping_file(p, icc_profile, headerOk) ==
    IF ~headerOk THEN [p EXCEPT !.res = "Err"]
    ELSE [p EXCEPT !.header = <<icc_profile>>, !.pixel_streamer = TRUE, !.res = "Ok",
                   !.headers = Append(@, Len(p.tiles))]

\* write_header_with_profile: takes the file, then writes the header with
\* the profile it is given (0: png::Encoder::new, no iCCP chunk) and opens
\* the pixel streamer; a failed write leaves the file taken
write_header_with_profile(p, icc_profile, headerOk) ==
    IF ~p.file THEN [p EXCEPT !.res = "panic"]
    ELSE IF ~headerOk THEN [p EXCEPT !.file = FALSE, !.res = "Err"]
    ELSE [p EXCEPT !.file = FALSE, !.header = <<icc_profile>>,
                   !.pixel_streamer = TRUE, !.res = "Ok",
                   !.headers = Append(@, Len(p.tiles))]

(* ---------------- a batch of results and the canvas ------------------- *)
max_size_unclipped(position, tile_size, canvas_size) == tile_size

\* lib.rs max_size_in_rect
max_size_in_rect(position, tile_size, canvas_size) ==
    VecSub(VecMin(VecAdd(position, tile_size), canvas_size), position)

\* Tile::empty(position, size)
EmptyTile(position, size) ==
    [k |-> 0, position |-> position, size |-> size, icc_profile |-> 0]

NoBatch == [refs |-> {}, all |-> {}, tile_size |-> << >>]

\* the canvas size of the batches tried, and the positions of their tiles
BatchCanvasSize == Vec(2, 2)

BatchPositions ==
    { Vec(x, y) : x \in 0..BatchCanvasSize.x, y \in 0..BatchCanvasSize.y }

\* the result of downloading the tile reference at a position: the tile
\* (numbered after its position) or an error
TileResult(position, size, ok) ==
    [k |-> 1 + position.x + (BatchCanvasSize.x + 1) * position.y,
     position |-> position,
     size |-> size, icc_profile |-> 0, ok |-> ok]

Overlap(t, u) ==
    /\ t.position.x < u.position.x + u.size.x
    /\ u.position.x < t.position.x + t.size.x
    /\ t.position.y < u.position.y + u.size.y
    /\ u.position.y < t.position.y + t.size.y

\* the results of the tile references at the positions in P, the size and
\* the outcome of each given by f
BatchOf(P, f) ==
    { TileResult(pos, Vec(f[pos][1][1], f[pos][1][2]), f[pos][2]) : pos \in P }

(* ------------- download_state.rs: the results of a batch -------------- *)
\* process_tile_result that forgets the tile size at a failed tile
process_tile_result_forgetting(tile_result, tile_size, canvas_size) ==
    IF tile_result.ok
    THEN [tile |-> <<tile_result.tile>>, success |-> TRUE,
          tile_size |-> <<tile_result.tile.size>>]
    ELSE [tile |-> IF tile_size # << >> /\ canvas_size # << >>
                   THEN <<EmptyTile(tile_result.position,
                              max_size_in_rect(tile_result.position, tile_size[1],
                                               canvas_size[1]))>>
                   ELSE << >>,
          success |-> FALSE, tile_size |-> << >>]

\* process_tile_result with the tiles, positions and sizes: the tile for
\* the canvas if any, the success, and *tile_size after the call
process_tile_result_at(tile_result, tile_size, canvas_size) ==
    IF tile_result.ok
    THEN [tile |-> <<tile_result.tile>>, success |-> TRUE,
          tile_size |-> <<tile_result.tile.size>>]
    ELSE [tile |-> IF tile_size # << >> /\ canvas_size # << >>
                   THEN <<EmptyTile(tile_result.position,
                              max_size_in_rect(tile_result.position, tile_size[1],
                                               canvas_size[1]))>>
                   ELSE << >>,
          success |-> FALSE, tile_size |-> tile_size]

\* DownloadState::new() with tile_size an optional size
DownloadStateDefault == [DownloadStateNew EXCEPT !.tile_size = << >>]

\* DownloadState::set_tile_size(size)
set_tile_size_to(s, size) == [s EXCEPT !.tile_size = <<size>>]

\* the loop of download_batch over the results in the order the stream
\* yields them; acc holds the DownloadState and, for each result so far,
\* the tile added to the canvas if any, and state.tile_size after it
RECURSIVE download_batch_loop(_, _, _)
download_batch_loop(tile_results, canvas_size, acc) ==
    IF tile_results = << >> THEN acc
    ELSE LET r == process_tile_result_at(Head(tile_results), acc.state.tile_size,
                                         canvas_size)
             processed == [acc.state EXCEPT !.tile_size = r.tile_size]
             recorded == IF r.success
                         THEN set_tile_size_to(record_success(processed), r.tile[1].size)
                         ELSE processed
         IN  download_batch_loop(Tail(tile_results), canvas_size,
                 [state |-> recorded, added |-> Append(acc.added, r.tile),
                  sizes |-> Append(acc.sizes, recorded.tile_size)])

\* download_batch, then set_fetch_result(state.create_fetch_result()) of
\* dezoomify_level
download_batch(tile_results, canvas_size, s) ==
    LET end == download_batch_loop(tile_results, canvas_size,
                   [state |-> add_batch(s, Len(tile_results)),
                    added |-> << >>, sizes |-> << >>])
    IN  [state |-> end.state, before |-> s.tile_size, added |-> end.added,
         sizes |-> end.sizes, fetch_result |-> create_fetch_result(end.state)]

\* what the download of the i-th tile reference of the n-th batch gives: an
\* error, or a tile of one of two sizes
BatchResult(n, i, outcome) ==
    IF outcome = "error" THEN [ok |-> FALSE, position |-> Vec(i - 1, n - 1)]
    ELSE [ok |-> TRUE, position |-> Vec(i - 1, n - 1),
          tile |-> [k |-> 1, position |-> Vec(i - 1, n - 1),
                    size |-> IF outcome = "small" THEN Vec(1, 1) ELSE Vec(2, 2),
                    icc_profile |-> 0]]

\* the batches of a run from the outcomes of their tile references, "none"
\* where a batch has no further reference
BatchesFrom(count, outcomes) ==
    [n \in 1..count |->
        [i \in 1..Cardinality({ i \in 1..MaxBatchLen : outcomes[n][i] # "none" }) |->
            BatchResult(n, i, outcomes[n][i])]]

(* ----------------- lib.rs: choosing an image and a level --------------- *)
\* number of zoom levels of an image, and of images, at most
MaxLevels == 3

\* the size hints a level may have: none, or one of these sizes
LevelSizes == {Vec(1, 1), Vec(2, 1), Vec(2, 2)}

resolve_unclamped(requested, available_count) == requested

\* lib.rs resolve_level_index
resolve_level_index(requested, available_count) ==
    IF requested < available_count THEN requested ELSE available_count - 1

\* lib.rs resolve_image_index
resolve_image_index(requested, available_count) ==
    IF requested < available_count THEN requested ELSE available_count - 1

\* Arguments::should_use_largest
should_use_largest(a) ==
    a.largest \/ (a.bulk /\ a.max_width = << >> /\ a.max_height = << >>
                          /\ a.zoom_level = << >>)

area(size) == size.x * size.y

\* Iterator::filter over a sequence
RECURSIVE Filter(_, _)
Filter(q, keep) ==
    IF q = << >> THEN << >>
    ELSE IF q[1] \in keep THEN <<q[1]>> \o Filter(Tail(q), keep)
    ELSE Filter(Tail(q), keep)

\* Iterator::max_by_key(|s| s.area()): the last of the largest, if any
max_by_area(sizes) ==
    IF sizes = << >> THEN << >>
    ELSE LET i == CHOOSE i \in 1..Len(sizes) :
                    \A j \in 1..Len(sizes) :
                        /\ area(sizes[j]) <= area(sizes[i])
                        /\ j > i => area(sizes[j]) < area(sizes[i])
         IN  <<sizes[i]>>

\* Arguments::best_size
best_size(a, sizes) ==
    IF should_use_largest(a) THEN max_by_area(sizes)
    ELSE IF a.max_width # << >> \/ a.max_height # << >>
    THEN max_by_area(Filter(sizes,
            { sz \in LevelSizes :
                /\ a.max_width # << >> => sz.x <= a.max_width[1]
                /\ a.max_height # << >> => sz.y <= a.max_height[1] }))
    ELSE << >>

\* the size hints that are Some, in level order (filter_map)
RECURSIVE size_hints(_)
size_hints(levels) ==
    IF levels = << >> THEN << >> ELSE levels[1] \o size_hints(Tail(levels))

\* lib.rs find_level_with_size
find_level_with_size(levels, target_size) ==
    LET found == { i \in 1..Len(levels) : levels[i] = <<target_size>> }
    IN  IF found = {} THEN << >>
        ELSE <<(CHOOSE i \in found : \A j \in found : i <= j) - 1>>

\* what choose_level and choose_image return: the index of the item taken
\* out of the list, and (history) the calls of the resolver
Chosen(index, resolved) == [kind |-> "Ok", index |-> index, resolved |-> resolved]

NotChosen(kind) == [kind |-> kind, index |-> -1, resolved |-> << >>]

\* lib.rs level_picker and image_picker: lines are read until one is an
\* index below count (picked) or standard input ends (picked = -1)
picker(count, picked) ==
    IF picked = -1 THEN NotChosen("Eof") ELSE Chosen(picked, << >>)

\* choose_level without its arm for an empty list
choose_level_nonempty(levels, a, picked) ==
    IF Len(levels) = 1 THEN Chosen(0, << >>)
    ELSE IF a.zoom_level # << >>
    THEN Chosen(resolve_level_index(a.zoom_level[1], Len(levels)),
                <<[requested |-> a.zoom_level[1], available_count |-> Len(levels)]>>)
    ELSE LET best == best_size(a, size_hints(levels))
             pos == IF best = << >> THEN << >> ELSE find_level_with_size(levels, best[1])
         IN  IF pos # << >> THEN Chosen(pos[1], << >>)
             ELSE picker(Len(levels), picked)

\* lib.rs choose_level; a level is its size hint
choose_level(levels, a, picked) ==
    IF Len(levels) = 0 THEN NotChosen("NoLevels")
    ELSE IF Len(levels) = 1 THEN Chosen(0, << >>)
    ELSE IF a.zoom_level # << >>
    THEN Chosen(resolve_level_index(a.zoom_level[1], Len(levels)),
                <<[requested |-> a.zoom_level[1], available_count |-> Len(levels)]>>)
    ELSE LET best == best_size(a, size_hints(levels))
             pos == IF best = << >> THEN << >> ELSE find_level_with_size(levels, best[1])
         IN  IF pos # << >> THEN Chosen(pos[1], << >>)
             ELSE picker(Len(levels), picked)

\* lib.rs choose_image
choose_image(count, a, picked) ==
    IF count = 0 THEN NotChosen("NoLevels")
    ELSE IF count = 1 THEN Chosen(0, << >>)
    ELSE IF a.image_index # << >>
    THEN Chosen(resolve_image_index(a.image_index[1], count),
                <<[requested |-> a.image_index[1], available_count |-> count]>>)
    ELSE IF a.bulk THEN Chosen(0, << >>)
    ELSE picker(count, picked)

\* the lists of at most n levels
RECURSIVE LevelLists(_)
LevelLists(n) ==
    IF n = 0 THEN {<< >>}
    ELSE LET shorter == LevelLists(n - 1)
         IN  shorter \cup { Append(l, h) : l \in shorter,
                                           h \in {<< >>} \cup { <<sz>> : sz \in LevelSizes } }

\* an index given on the command line, or none
Requested == {<< >>} \cup { <<i>> : i \in 0..(MaxLevels + 1) }

(* ------------- network.rs, download_state.rs: HTTP headers ------------- *)
\* number of headers a zoom level gives, and of --header options, at most
MaxHeaders == 2

\* header names as they may be written; HeaderName parsing makes them
\* lower case and refuses a name with a space in it
lowercase(name) ==
    CASE name = "Referer" -> "referer"
      [] name = "User-Agent" -> "user-agent"
      [] OTHER -> name

valid_name(name) == name # "bad name"

\* network.rs default_headers (default_headers.yaml)
default_headers == <<<<"user-agent", "default">>, <<"accept", "default">>>>

\* the headers a zoom level may give (ZoomLevel::http_headers), and those
\* --header may give (Arguments::headers)
LevelHeaders == {"Referer", "user-agent"} \X {"level"}

UserHeaders == {"referer", "User-Agent", "bad name"} \X {"user", "user2"}

RECURSIVE SeqsUpTo(_, _)
SeqsUpTo(S, n) ==
    IF n = 0 THEN {<< >>}
    ELSE LET shorter == SeqsUpTo(S, n - 1)
         IN  shorter \cup { Append(q, e) : q \in shorter, e \in S }

\* the values given for a name, in order
RECURSIVE values_of(_, _)
values_of(pairs, name) ==
    IF pairs = << >> THEN << >>
    ELSE IF lowercase(pairs[1][1]) = name
    THEN <<pairs[1][2]>> \o values_of(Tail(pairs), name)
    ELSE values_of(Tail(pairs), name)

\* HeaderMap::from_iter: every value is appended under its name
from_iter(pairs) ==
    [name \in { lowercase(pairs[i][1]) : i \in 1..Len(pairs) } |-> values_of(pairs, name)]

\* ClientBuilder::default_headers: each (name, value) of the map is inserted
\* into the headers of the client, a later value replacing an earlier one
builder_default_headers(config, header_map) ==
    [name \in DOMAIN config \cup DOMAIN header_map |->
        IF name \in DOMAIN header_map
        THEN header_map[name][Len(header_map[name])]
        ELSE config[name]]

\* network.rs client: the default headers of the client it builds, which
\* are what a request without headers of its own sends
client(headers) ==
    IF \E i \in 1..Len(headers) : ~valid_name(headers[i][1])
    THEN [kind |-> "Err", sends |-> << >>]
    ELSE [kind |-> "Ok",
          sends |-> builder_default_headers([name \in {"accept"} |-> "*/*"],
                                            from_iter(default_headers \o headers))]

\* download_state.rs create_tile_downloader: the HTTP client of the
\* downloader
create_tile_downloader(level_headers, args_headers) ==
    client(level_headers \o args_headers)

(* --------------- lib.rs, main.rs: bulk output file names --------------- *)
\* index of an image in a bulk run at most
MaxIndex == 10

\* text is a sequence of characters
Digit(d) == <<"0", "1", "2", "3", "4", "5", "6", "7", "8", "9">>[d + 1]

\* Display of an unsigned number ("{}")
RECURSIVE to_string(_)
to_string(n) ==
    IF n < 10 THEN <<Digit(n)>> ELSE Append(to_string(n \div 10), Digit(n % 10))

\* "{:0width$}": zeros in front up to the width, nothing cut off
RECURSIVE zero_padded(_, _)
zero_padded(text, width) ==
    IF Len(text) >= width THEN text ELSE zero_padded(<<"0">> \o text, width)

\* a path: its parent directory and its file name (empty: no file name)
Path(dir, name) == [dir |-> dir, name |-> name]

\* where Path::file_stem and Path::extension split the file name: at the
\* last dot, unless the name has none or only a leading one
split_at(name) ==
    LET dots == { i \in 1..Len(name) : name[i] = "." }
    IN  IF dots = {} THEN 0
        ELSE LET last == CHOOSE i \in dots : \A j \in dots : j <= i
             IN  IF last = 1 THEN 0 ELSE last

\* Path::file_stem
file_stem(path) ==
    IF path.name = << >> THEN << >>
    ELSE IF split_at(path.name) = 0 THEN <<path.name>>
    ELSE <<SubSeq(path.name, 1, split_at(path.name) - 1)>>

\* Path::extension
extension(path) ==
    IF path.name = << >> \/ split_at(path.name) = 0 THEN << >>
    ELSE <<SubSeq(path.name, split_at(path.name) + 1, Len(path.name))>>

\* Option::unwrap_or_default on a text
unwrap_or_default(option) == IF option = << >> THEN << >> ELSE option[1]

\* lib.rs generate_bulk_output_name
generate_bulk_output_name(base_outfile, index) ==
    IF file_stem(base_outfile) # << >>
    THEN IF extension(base_outfile) # << >>
         THEN Path(base_outfile.dir,
                   file_stem(base_outfile)[1] \o <<"_">> \o to_string(index + 1)
                       \o <<".">> \o extension(base_outfile)[1])
         ELSE Path(base_outfile.dir,
                   file_stem(base_outfile)[1] \o <<"_">> \o to_string(index + 1))
    ELSE Path(base_outfile.dir,
              <<"d", "e", "z", "o", "o", "m", "i", "f", "i", "e", "d", "_">>
                  \o to_string(index + 1) \o <<".", "j", "p", "g">>)

\* main.rs generate_bulk_output_name
main_generate_bulk_output_name(base_outfile, index) ==
    LET stem == unwrap_or_default(file_stem(base_outfile))
        ext == unwrap_or_default(extension(base_outfile))
        parent == IF base_outfile.name = << >> /\ base_outfile.dir = ""
                  THEN "." ELSE base_outfile.dir
        new_name == stem \o <<"_">> \o zero_padded(to_string(index + 1), 4)
    IN  Path(parent, IF ext # << >> THEN new_name \o <<".">> \o ext ELSE new_name)

\* the output files a bulk run may be given
BulkOutfiles ==
    { Path(dir, name) :
        dir \in {"", "out"},
        name \in { <<"a", ".", "j">>, <<"a", ".", "b", ".", "j">>, <<"a">>, <<".", "a">> } }
    \cup { Path("", << >>) }

(* ------------------- arguments.rs: parse_duration --------------------- *)
\* A number of any size is the sequence of its decimal digits, the most
\* significant first, without leading zeros (zero is <<0>>).

\* the digits without their leading zeros
RECURSIVE Strip(_)
Strip(ds) ==
    IF Len(ds) > 1 /\ ds[1] = 0 THEN Strip(Tail(ds)) ELSE ds

\* a < b
RECURSIVE Less(_, _)
Less(a, b) ==
    IF Len(a) # Len(b) THEN Len(a) < Len(b)
    ELSE IF a = << >> THEN FALSE
    ELSE IF a[1] # b[1] THEN a[1] < b[1]
    ELSE Less(Tail(a), Tail(b))

\* the digits of a small number
RECURSIVE digits_of(_)
digits_of(n) ==
    IF n < 10 THEN <<n>> ELSE Append(digits_of(n \div 10), n % 10)

\* the small number of a few digits
RECURSIVE small_value(_)
small_value(ds) ==
    IF ds = << >> THEN 0
    ELSE 10 * small_value(SubSeq(ds, 1, Len(ds) - 1)) + ds[Len(ds)]

\* ds * k + carry for a small k
RECURSIVE MulCarry(_, _, _)
MulCarry(ds, k, carry) ==
    IF ds = << >> THEN (IF carry = 0 THEN << >> ELSE digits_of(carry))
    ELSE LET v == ds[Len(ds)] * k + carry
         IN  Append(MulCarry(SubSeq(ds, 1, Len(ds) - 1), k, v \div 10), v % 10)

MulSmall(ds, k) == Strip(<<0>> \o MulCarry(ds, k, 0))

\* a - b - borrow for a >= b, in as many digits as a
RECURSIVE SubBorrow(_, _, _)
SubBorrow(a, b, borrow) ==
    IF a = << >> THEN << >>
    ELSE LET y == IF b = << >> THEN 0 ELSE b[Len(b)]
             v == a[Len(a)] - y - borrow
             rest == IF b = << >> THEN << >> ELSE SubSeq(b, 1, Len(b) - 1)
         IN  Append(SubBorrow(SubSeq(a, 1, Len(a) - 1), rest, IF v < 0 THEN 1 ELSE 0),
                    IF v < 0 THEN v + 10 ELSE v)

\* u64::MAX and 2^64
U64Max == <<1, 8, 4, 4, 6, 7, 4, 4, 0, 7, 3, 7, 0, 9, 5, 5, 1, 6, 1, 5>>
TwoTo64 == <<1, 8, 4, 4, 6, 7, 4, 4, 0, 7, 3, 7, 0, 9, 5, 5, 1, 6, 1, 6>>

\* a number modulo 2^64
RECURSIVE Wrap(_)
Wrap(v) ==
    IF Less(U64Max, v) THEN Wrap(Strip(SubBorrow(v, TwoTo64, 0))) ELSE v

\* k * val in u64: with overflow checks (a debug build) an overflow panics,
\* << >> here; without them (a release build) the product wraps
mul_u64(k, val, overflow_checks) ==
    IF ~Less(U64Max, MulSmall(val, k)) THEN <<MulSmall(val, k)>>
    ELSE IF overflow_checks THEN << >>
    ELSE <<Wrap(MulSmall(val, k))>>

\* the classes \d and \s of the regex crate are Unicode's: "U+0663" stands
\* for the one character ARABIC-INDIC DIGIT THREE, "U+00A0" for NO-BREAK SPACE
AsciiDigits == {"0", "1", "2", "3", "4", "5", "6", "7", "8", "9"}
is_digit == AsciiDigits \cup {"U+0663"}
is_space == {" ", "\t", "U+00A0"}

\* the length of the longest prefix of s whose characters are all in a class
RECURSIVE PrefixLen(_, _)
PrefixLen(s, class) ==
    IF s # << >> /\ s[1] \in class THEN 1 + PrefixLen(Tail(s), class) ELSE 0

\* the alternation (min|s|ms|ns) of the regex
RegexUnits == { <<"m", "i", "n">>, <<"s">>, <<"m", "s">>, <<"n", "s">> }

\* Regex ^(\d+)\s*(min|s|ms|ns)$ .captures(s): the three parts have no
\* character in common, so the only way to match is the longest run of
\* digits, the longest run of spaces, and a unit up to the end
captures(s) ==
    LET n == PrefixLen(s, is_digit)
        rest == SubSeq(s, n + 1, Len(s))
        w == PrefixLen(rest, is_space)
        unit == SubSeq(rest, w + 1, Len(rest))
    IN  IF n > 0 /\ unit \in RegexUnits
        THEN <<[number |-> SubSeq(s, 1, n), unit |-> unit]>>
        ELSE << >>

\* str::parse::<u64> of a run of \d characters: an error on a character
\* that is no ASCII digit and on a number above u64::MAX
parse_u64(text) ==
    LET ds == [i \in 1..Len(text) |->
                  CHOOSE d \in 0..9 : text[i] \in AsciiDigits => Digit(d) = text[i]]
    IN  IF \E i \in 1..Len(text) : text[i] \notin AsciiDigits THEN << >>
        ELSE IF Less(U64Max, Strip(ds)) THEN << >>
        ELSE <<Strip(ds)>>

\* std::time::Duration: whole seconds (u64) and nanoseconds below 10^9
from_secs(v) == [secs |-> v, nanos |-> 0]
DivPow10(v, k) == IF Len(v) <= k THEN <<0>> ELSE SubSeq(v, 1, Len(v) - k)
ModPow10(v, k) == small_value(SubSeq(v, IF Len(v) <= k THEN 1 ELSE Len(v) - k + 1, Len(v)))
from_millis(v) == [secs |-> DivPow10(v, 3), nanos |-> ModPow10(v, 3) * 1000000]
from_nanos(v) == [secs |-> DivPow10(v, 9), nanos |-> ModPow10(v, 9)]

Ok(v) == [res |-> "Ok", val |-> v]
Err == [res |-> "Err"]
Panic == [res |-> "panic"]

\* arguments.rs parse_duration
parse_duration(s, overflow_checks) ==
    IF captures(s) = << >> THEN Err
    ELSE LET caps == captures(s)[1]
             val == parse_u64(caps.number)
         IN  IF val = << >> THEN Err
             ELSE CASE caps.unit = <<"h">> ->
                         IF mul_u64(3600, val[1], overflow_checks) = << >> THEN Panic
                         ELSE Ok(from_secs(mul_u64(3600, val[1], overflow_checks)[1]))
                    [] caps.unit \in { <<"m", "i", "n">>, <<"m">> } ->
                         IF mul_u64(60, val[1], overflow_checks) = << >> THEN Panic
                         ELSE Ok(from_secs(mul_u64(60, val[1], overflow_checks)[1]))
                    [] caps.unit = <<"s">> -> Ok(from_secs(val[1]))
                    [] caps.unit = <<"m", "s">> -> Ok(from_millis(val[1]))
                    [] caps.unit = <<"n", "s">> -> Ok(from_nanos(val[1]))
                    [] OTHER -> Err

\* the text of a number
Numeral(ds) == [i \in 1..Len(ds) |-> Digit(ds[i])]

\* the strings parse_duration is given: the strings of its tests and of the
\* defaults of the options, numbers around u64::MAX and u64::MAX / 60, and
\* strings that are no durations
DurationNumbers ==
    { << >>, <<"0">>, <<"2">>, <<"6">>, <<"2", "9">>, <<"3", "0">>, <<"5", "0">>,
      <<"0", "0", "7">>, <<"1", "0", "0", "0">>, <<"1", "5", "0", "0">>,
      <<"1", "2", "3", "4", "5", "6", "7", "8", "9", "0", "1">>,
      <<"U+0663">>, <<"1", "U+0663">>,
      Numeral(U64Max), Numeral(TwoTo64),
      Numeral(<<3, 0, 7, 4, 4, 5, 7, 3, 4, 5, 6, 1, 8, 2, 5, 8, 6, 0>>),
      Numeral(<<3, 0, 7, 4, 4, 5, 7, 3, 4, 5, 6, 1, 8, 2, 5, 8, 6, 1>>) }
DurationSpaces == { << >>, <<" ">>, <<" ", "\t">>, <<"U+00A0">> }
DurationSuffixes ==
    RegexUnits \cup
    { << >>, <<"h">>, <<"m">>, <<"j">>, <<"S">>, <<"s", " ", "s">>, <<"2", " ", "m", "s">>,
      <<"s", " ">>, <<"m", "i", "n", "s">>, <<"u", "s">> }
DurationPrefixes == { << >>, <<" ">>, <<"-">>, <<"1", ".">> }

(* --------------- lib.rs: process_bulk and its statistics -------------- *)
\* lib.rs BulkStats::new
BulkStatsNew ==
    [total_images |-> 0, successful_images |-> 0, failed_images |-> 0,
     partial_downloads |-> 0]

\* lib.rs BulkStats::set_total, record_success, record_partial, record_failure
bulk_set_total(stats, total) == [stats EXCEPT !.total_images = total]

bulk_record_success(stats) == [stats EXCEPT !.successful_images = @ + 1]

bulk_record_partial(stats) == [stats EXCEPT !.partial_downloads = @ + 1]

bulk_record_failure(stats) == [stats EXCEPT !.failed_images = @ + 1]

\* how the turn of the loop for one image ends: at the call that failed
\* (continue), or with the result of dezoomify_level
ImageOutcomes ==
    {"into_zoom_levels", "choose_level", "prepare_output_path", "create_tile_buffer",
     "Err", "PartialDownload", "Ok"}

\* process_bulk when it is entered; attempted is the history of the indices
\* of the images whose turn of the loop began
NewProcessBulk ==
    [pc |-> "discover", discovered |-> << >>, base_dir |-> FALSE, index |-> 0,
     stats |-> BulkStatsNew, attempted |-> << >>, result |-> << >>]

\* process_bulk returns
BulkReturn(p, res) == [p EXCEPT !.pc = "done", !.result = <<res>>]

\* the loop of process_bulk from its index on, and Ok(stats) after it
BulkImages(p) ==
    IF p.index < p.discovered[1] THEN [p EXCEPT !.pc = "image"] ELSE BulkReturn(p, "Ok")

\* the turn of the loop with the failure of an image ending process_bulk
process_bulk_image_returning(p, outcome) ==
    LET q == [p EXCEPT !.attempted = Append(@, p.index), !.index = @ + 1]
    IN  IF outcome = "Ok" THEN BulkImages([q EXCEPT !.stats = bulk_record_success(@)])
        ELSE IF outcome = "PartialDownload"
        THEN BulkImages([q EXCEPT !.stats = bulk_record_partial(@)])
        ELSE BulkReturn([q EXCEPT !.stats = bulk_record_failure(@)], "Err")

\* lib.rs process_bulk: one turn of its loop (432-492)
process_bulk_image(p, outcome) ==
    LET q == [p EXCEPT !.attempted = Append(@, p.index), !.index = @ + 1]
    IN  BulkImages([q EXCEPT !.stats =
            IF outcome = "Ok" THEN bulk_record_success(@)
            ELSE IF outcome = "PartialDownload" THEN bulk_record_partial(@)
            ELSE bulk_record_failure(@)])

\* lib.rs process_bulk up to its loop (390-429): r is the call that failed,
\* or "Ok" with the number of images that get_images_from_uri returned
process_bulk_discover(p, r, images) ==
    IF r \in {"NoBulkUrl", "client", "get_images_from_uri"} THEN BulkReturn(p, "Err")
    ELSE LET q == [p EXCEPT !.discovered = <<images>>,
                            !.stats = bulk_set_total(@, images)]
         IN  IF r = "current_dir" THEN BulkReturn(q, "Err")
             ELSE BulkImages([q EXCEPT !.base_dir = TRUE])

(* ------------ lib.rs: process_image_urls over the registry ------------ *)
\* what get_dezoomer_result returns for a dezoomer and a URL: an error,
\* DezoomerResult::Images or DezoomerResult::ImageUrls
DezoomerFailed == [kind |-> "Err", images |-> << >>, urls |-> << >>]

Images(images) == [kind |-> "Images", images |-> images, urls |-> << >>]

ImageUrls(urls) == [kind |-> "ImageUrls", images |-> << >>, urls |-> urls]

RECURSIVE process_image_urls(_)
RECURSIVE image_urls_loop(_)
RECURSIVE try_dezoomers(_, _)
RECURSIVE try_every_dezoomer(_, _)

\* the loop over the dezoomers going on after a dezoomer found images
try_every_dezoomer(url, d) ==
    IF d > Len(all_dezoomers)
    THEN [found_images |-> FALSE, images |-> << >>, tried |-> << >>]
    ELSE LET answer == url[d]
             nested == process_image_urls(answer.urls)
             rest == try_every_dezoomer(url, d + 1)
         IN  IF answer.kind = "Images"
             THEN [found_images |-> TRUE, images |-> answer.images \o rest.images,
                   tried |-> <<all_dezoomers[d]>> \o rest.tried]
             ELSE IF answer.kind = "ImageUrls" /\ nested.kind = "Ok"
             THEN [found_images |-> TRUE, images |-> nested.images \o rest.images,
                   tried |-> <<all_dezoomers[d]>> \o rest.tried]
             ELSE [rest EXCEPT !.tried = <<all_dezoomers[d]>> \o @]

\* lib.rs process_image_urls: the loop over all_dezoomers(false) for one
\* URL (110-143), from the d-th dezoomer on; a URL is what each dezoomer
\* answers for it, and tried is the history of the dezoomers asked
try_dezoomers(url, d) ==
    IF d > Len(all_dezoomers)
    THEN [found_images |-> FALSE, images |-> << >>, tried |-> << >>]
    ELSE LET answer == url[d]
             nested == process_image_urls(answer.urls)
             rest == try_dezoomers(url, d + 1)
         IN  IF answer.kind = "Images"
             THEN [found_images |-> TRUE, images |-> answer.images,
                   tried |-> <<all_dezoomers[d]>>]
             ELSE IF answer.kind = "ImageUrls" /\ nested.kind = "Ok"
             THEN [found_images |-> TRUE, images |-> nested.images,
                   tried |-> <<all_dezoomers[d]>>]
             ELSE [rest EXCEPT !.tried = <<all_dezoomers[d]>> \o @]

\* lib.rs process_image_urls: the loop over the URLs (104-148)
image_urls_loop(urls) ==
    IF urls = << >> THEN [all_images |-> << >>, tried |-> << >>]
    ELSE LET first == try_dezoomers(urls[1], 1)
             rest == image_urls_loop(Tail(urls))
         IN  [all_images |-> first.images \o rest.all_images,
              tried |-> <<first.tried>> \o rest.tried]

\* lib.rs process_image_urls
process_image_urls(urls) ==
    LET l == image_urls_loop(urls)
    IN  IF l.all_images = << >>
        THEN [kind |-> "NoLevels", images |-> << >>, tried |-> l.tried]
        ELSE [kind |-> "Ok", images |-> l.all_images, tried |-> l.tried]

\* the URL for which these two dezoomers answer so, and every other
\* dezoomer of the registry fails
UrlAnswering(iiif, bulk_text) ==
    [d \in 1..Len(all_dezoomers) |->
        IF all_dezoomers[d] = "iiif" THEN iiif
        ELSE IF all_dezoomers[d] = "bulk_text" THEN bulk_text
        ELSE DezoomerFailed]

\* the URL lists a dezoomer answers with
NestedLists ==
    LET none == UrlAnswering(DezoomerFailed, DezoomerFailed)
        one == UrlAnswering(Images(<<"nested">>), DezoomerFailed)
    IN  { << >>, <<none>>, <<one>>, <<none, one>> }

\* the answers of a dezoomer of this name; bulk_text answers with a URL
\* list that is not empty, or fails (bulk_text/mod.rs:21-39)
Answers(name) ==
    IF name = "bulk_text"
    THEN { DezoomerFailed } \cup { ImageUrls(urls) : urls \in NestedLists \ {<< >>} }
    ELSE { DezoomerFailed, Images(<< >>), Images(<<name>>) } \cup
         { ImageUrls(urls) : urls \in NestedLists }

ImageUrlSet == { UrlAnswering(i, b) : i \in Answers("iiif"), b \in Answers("bulk_text") }

\* the lists of at most n of these URLs
RECURSIVE ImageUrlLists(_)
ImageUrlLists(n) ==
    IF n = 0 THEN {<< >>}
    ELSE LET shorter == ImageUrlLists(n - 1)
         IN  shorter \cup { Append(l, u) : l \in shorter, u \in ImageUrlSet }

(* ------------------ main.rs, lib.rs: a run of the program ------------- *)
\* URLs of a bulk file, and images asked for at the prompt, at most
MaxUrls == 2

\* dezoomify creating the tile buffer before it prepares the output path
dezoomify_buffer_first ==
    <<"find_zoomlevel", "current_dir", "create_tile_buffer", "prepare_output_path",
      "dezoomify_level">>

\* lib.rs dezoomify: its calls in their order; each ends dezoomify with its
\* error when it fails (?)
dezoomify_steps ==
    <<"find_zoomlevel", "current_dir", "prepare_output_path", "create_tile_buffer",
      "dezoomify_level">>

\* a call of dezoomify before its first step
NewDezoomify(outfile) ==
    [step |-> 1, outfile |-> outfile, started |-> FALSE, batches |-> 0,
     state |-> DownloadStateNew]

\* main before it has parsed its arguments
NewMain(bulk, has_args, input_uri, outfile) ==
    [bulk |-> bulk, has_args |-> has_args, input_uri |-> input_uri, outfile |-> outfile,
     pc |-> "main", urls |-> 0, index |-> 0, successful_count |-> 0, error_count |-> 0,
     has_errors |-> FALSE, code |-> << >>, call |-> NewDezoomify(<< >>),
     results |-> << >>, log |-> << >>, last_log |-> << >>,
     returned |-> << >>, last_returned |-> << >>]

\* main.rs:58-60: exit(1) after an error, the end of main (0) otherwise
Exit(m) == [m EXCEPT !.pc = "exit", !.code = <<IF m.has_errors THEN 1 ELSE 0>>]

\* dezoomify(&args) is entered
StartDezoomify(m, outfile) ==
    [m EXCEPT !.pc = "dezoomify", !.call = NewDezoomify(outfile),
              !.log = << >>, !.last_log = m.log,
              !.returned = << >>, !.last_returned = m.returned]

\* main.rs:72-80
bulk_output_file(m) == IF m.outfile # << >> THEN m.outfile ELSE m.input_uri

\* main.rs process_bulk: the loop over the URLs from its index on, and what
\* follows the loop, back in main
BulkLoop(m) ==
    IF m.index < m.urls
    THEN StartDezoomify(m, IF bulk_output_file(m) # << >>
                           THEN <<main_generate_bulk_output_name(bulk_output_file(m)[1], m.index)>>
                           ELSE << >>)
    ELSE Exit([m EXCEPT !.has_errors = m.error_count > 0])

\* what main.rs does with the result of dezoomify: the arms of the match in
\* process_bulk (99-118), of the match in main (26-51), and the end of the
\* loop (52-55). "NoInput" is the end of the input at the prompt for a URL,
\* "Eof" the end of the input at a later prompt; both are ZoomError::Io with
\* the kind UnexpectedEof.
DezoomifyReturned(m, kind) ==
    LET q == [m EXCEPT !.returned = <<kind>>]
        r == IF kind = "NoInput" THEN q ELSE [q EXCEPT !.results = Append(@, kind)]
    IN  IF m.bulk
        THEN BulkLoop([r EXCEPT
                 !.index = @ + 1,
                 !.successful_count = IF kind \in {"Ok", "PartialDownload"} THEN @ + 1 ELSE @,
                 !.error_count = IF kind \in {"Ok", "PartialDownload"} THEN @ ELSE @ + 1])
        ELSE IF kind \in {"NoInput", "Eof"} THEN Exit(r)
        ELSE IF m.has_args THEN Exit([r EXCEPT !.has_errors = @ \/ kind # "Ok"])
        ELSE StartDezoomify([r EXCEPT !.has_errors = @ \/ kind # "Ok"], m.outfile)

\* the step dezoomify is at
Step(m) == dezoomify_steps[m.call.step]

\* a step of dezoomify succeeded, with this event
Logged(m, event) == [m EXCEPT !.log = Append(@, event)]
Advance(m, event) == [Logged(m, event) EXCEPT !.call.step = @ + 1]

\* output_file.rs reserve_output_file: creates the file, or fails
reserve_output_file(ok) == IF ok THEN "reserve_output_file" ELSE "reserve_output_file failed"

\* Arguments::read_bulk_urls: the URLs of the bulk source, or an error
read_bulk_urls == {<< >>} \cup { <<n>> : n \in 0..MaxUrls }

RECURSIVE record_successes(_, _)
record_successes(s, n) == IF n = 0 THEN s ELSE record_successes(record_success(s), n - 1)

(* ------------------------------ Init ---------------------------------- *)
RunInit ==
    /\ args \in [parallelism : Parallelisms, retries : RetryCounts,
                 retry_delay : RetryDelays, min_interval : MinIntervals]
    /\ size_hint \in BOOLEAN
    /\ pc = "iter"
    /\ state = DownloadStateNew
    /\ progress = [pos |-> 0, len |-> 10]
    /\ batchNo = 0
    /\ batchLen = 0
    /\ nextIdx = 0
    /\ flight = << >>
    /\ previous = << >>
    /\ throttle = 0
    /\ result = Outcome(None)
    /\ finalized = FALSE
    /\ current = << >>
    /\ sinceStart = -1
    /\ lastGap = -1
    /\ tally = [refs |-> 0, ok |-> 0, err |-> 0]

CanvasIdle ==
    /\ canvas = NewCanvas("Generic", Vec(0, 0))
    /\ lastAdd = << >>
    /\ expected = << >>
    /\ batch = NoBatch

PngIdle == png = [NewPng(Vec(0, 0)) EXCEPT !.finalized = TRUE]

AutoIdle ==
    /\ auto = NewAuto(<< >>)
    /\ load = [NewLoad("dezoomer_result", << >>) EXCEPT !.pc = "done"]

\* AutoDezoomer::default and the entry into get_dezoomer_result; a caller of
\* zoom_levels drives it with the same loop
AutoInit ==
    \E dezoomers \in AutoLists, uri \in AutoUris,
       entry \in {"zoom_levels", "dezoomer_result"} :
        /\ auto = NewAuto(dezoomers)
        /\ load = NewLoad(entry, uri)

PrioIdle == prio = [url |-> << >>, dezoomers |-> << >>, result |-> << >>, done |-> TRUE]

\* the arguments of a call of prioritize_dezoomers_for_url
PrioInit ==
    \E url \in Urls(MaxFragments), dezoomers \in DezoomerLists :
        prio = [url |-> url, dezoomers |-> dezoomers, result |-> << >>, done |-> FALSE]

\* PngEncoder::new
PngInit == \E w \in CanvasSides, h \in CanvasSides : png = NewPng(Vec(w, h))

RunIdle ==
    /\ args = [parallelism |-> 1, retries |-> 0, retry_delay |-> 1, min_interval |-> 0]
    /\ size_hint = FALSE
    /\ pc = "done"
    /\ state = DownloadStateNew
    /\ progress = [pos |-> 0, len |-> 10]
    /\ batchNo = 0
    /\ batchLen = 0
    /\ nextIdx = 0
    /\ flight = << >>
    /\ previous = << >>
    /\ throttle = 0
    /\ result = Outcome(None)
    /\ finalized = FALSE
    /\ current = << >>
    /\ sinceStart = -1
    /\ lastGap = -1
    /\ tally = [refs |-> 0, ok |-> 0, err |-> 0]

\* Canvas::new_generic, Canvas::new_jpeg
CanvasInit ==
    /\ \E writer \in {"Generic", "Jpeg"}, w \in CanvasSides, h \in CanvasSides :
          canvas = NewCanvas(writer, Vec(w, h))
    /\ lastAdd = << >>
    /\ expected = [c \in DOMAIN canvas.image |-> ZeroPixel(canvas.writer)]
    /\ batch = NoBatch

\* a call about to be made
NewCall(op, in) == [op |-> op, in |-> in, out |-> << >>, done |-> FALSE]

FnIdle == fn = [NewCall("none", << >>) EXCEPT !.done = TRUE]

MainIdle == main = Exit(NewMain(FALSE, TRUE, << >>, << >>))

\* the arguments of a call of max_size_in_rect: a position inside the canvas
MaxSizeInit ==
    \E px \in 0..2, py \in 0..2, tx \in TileSides, ty \in TileSides,
       cx \in CanvasSides, cy \in CanvasSides :
        /\ fits_inside(Vec(px, py), Vec(cx, cy))
        /\ fn = NewCall("max_size_in_rect",
                        [position |-> Vec(px, py), tile_size |-> Vec(tx, ty),
                         canvas_size |-> Vec(cx, cy)])

\* the arguments of a call of choose_level
ChooseLevelInit ==
    \E levels \in LevelLists(MaxLevels), zoom_level \in Requested,
       largest \in BOOLEAN, bulk \in BOOLEAN,
       max_width \in {<< >>, <<1>>}, max_height \in {<< >>, <<1>>} :
        fn = NewCall("choose_level",
                     [levels |-> levels,
                      args |-> [zoom_level |-> zoom_level, largest |-> largest,
                                bulk |-> bulk, max_width |-> max_width,
                                max_height |-> max_height]])

\* the arguments of a call of choose_image
ChooseImageInit ==
    \E count \in 0..MaxLevels, image_index \in Requested, bulk \in BOOLEAN :
        fn = NewCall("choose_image",
                     [count |-> count,
                      args |-> [image_index |-> image_index, bulk |-> bulk]])

\* the arguments of a call of create_tile_downloader
HeadersInit ==
    \E level_headers \in SeqsUpTo(LevelHeaders, MaxHeaders),
       args_headers \in SeqsUpTo(UserHeaders, MaxHeaders) :
        fn = NewCall("create_tile_downloader",
                     [level_headers |-> level_headers, args_headers |-> args_headers])

\* the arguments of a call of generate_bulk_output_name
BulkNameInit ==
    \E base_outfile \in BulkOutfiles, index \in 0..MaxIndex :
        fn = NewCall("generate_bulk_output_name",
                     [base_outfile |-> base_outfile, index |-> index])

\* the argument of a call of parse_duration
DurationInit ==
    \E pre \in DurationPrefixes, number \in DurationNumbers,
       space \in DurationSpaces, suffix \in DurationSuffixes :
        fn = NewCall("parse_duration", pre \o number \o space \o suffix)

\* the batches of a run of dezoomify_level, each of one tile reference at
\* least, and the results of their tiles in the order the stream yields
\* them, with or without a size hint of the level
BatchesInit ==
    \E count \in 1..MaxBatches, canvas_size \in {<< >>, <<BatchCanvasSize>>} :
        \E outcomes \in [1..count ->
                            [1..MaxBatchLen -> {"none", "error", "small", "big"}]] :
            /\ \A n \in 1..count :
                  /\ outcomes[n][1] # "none"
                  /\ \A i \in 2..MaxBatchLen :
                        outcomes[n][i - 1] = "none" => outcomes[n][i] = "none"
            /\ fn = NewCall("download_batch",
                            [batches |-> BatchesFrom(count, outcomes),
                             canvas_size |-> canvas_size])

\* a call of process_bulk, with or without a bulk source in the arguments
ProcessBulkInit ==
    \E bulk \in BOOLEAN :
        fn = [NewCall("process_bulk", [bulk |-> bulk]) EXCEPT !.out = <<NewProcessBulk>>]

\* the URL list of a call of process_image_urls
ImageUrlsInit ==
    \E urls \in ImageUrlLists(MaxUrls) : fn = NewCall("process_image_urls", [urls |-> urls])

FnInit ==
    \/ MaxSizeInit
    \/ ImageUrlsInit
    \/ ProcessBulkInit
    \/ BatchesInit
    \/ DurationInit
    \/ BulkNameInit
    \/ HeadersInit
    \/ ChooseLevelInit
    \/ ChooseImageInit

Init == RunInit /\ CanvasIdle /\ PngIdle /\ AutoIdle /\ PrioIdle /\ MainIdle /\ FnIdle

InitCanvas == RunIdle /\ CanvasInit /\ PngIdle /\ AutoIdle /\ PrioIdle /\ MainIdle /\ FnIdle

\* a canvas of the hinted size, a batch of at most MaxTiles results at
\* different positions that are about to be yielded, and the tile size
\* earlier batches may have left
BatchInit ==
    /\ \E writer \in {"Generic", "Jpeg"} :
          canvas = NewCanvas(writer, BatchCanvasSize)
    /\ lastAdd = << >>
    /\ expected = [c \in DOMAIN canvas.image |-> ZeroPixel(canvas.writer)]
    /\ \E P \in SUBSET BatchPositions :
          /\ Cardinality(P) \in 1..MaxTiles
          /\ \E f \in [P -> (TileSides \X TileSides) \X BOOLEAN],
                tile_size \in {<< >>} \cup
                              { <<Vec(sx, sy)>> : sx \in TileSides, sy \in TileSides } :
                batch = [refs |-> BatchOf(P, f), all |-> BatchOf(P, f),
                         tile_size |-> tile_size]

InitBatch == RunIdle /\ BatchInit /\ PngIdle /\ AutoIdle /\ PrioIdle /\ MainIdle /\ FnIdle

InitPng == RunIdle /\ CanvasIdle /\ PngInit /\ AutoIdle /\ PrioIdle /\ MainIdle /\ FnIdle

InitAuto == RunIdle /\ CanvasIdle /\ PngIdle /\ AutoInit /\ PrioIdle /\ MainIdle /\ FnIdle

InitPrio == RunIdle /\ CanvasIdle /\ PngIdle /\ AutoIdle /\ PrioInit /\ MainIdle /\ FnIdle

\* the command line: --bulk is an option, and without any argument there
\* is neither an input nor an output file
MainInit ==
    \E bulk \in BOOLEAN, has_args \in BOOLEAN,
       input_uri \in {<< >>, <<Path("", <<"a", ".", "j">>)>>},
       outfile \in {<< >>, <<Path("out", <<"a", ".", "j">>)>>} :
        /\ ~has_args => ~bulk /\ input_uri = << >> /\ outfile = << >>
        /\ main = NewMain(bulk, has_args, input_uri, outfile)

InitMain == RunIdle /\ CanvasIdle /\ PngIdle /\ AutoIdle /\ PrioIdle /\ MainInit /\ FnIdle

InitFn == RunIdle /\ CanvasIdle /\ PngIdle /\ AutoIdle /\ PrioIdle /\ MainIdle /\ FnInit

(* ----------------------------- actions -------------------------------- *)
\* history of fetch starts: a fetch starts now
NoteStart ==
    /\ lastGap' = sinceStart
    /\ sinceStart' = 0

\* next_tile_references returns Some(batch): download_batch starts
NextBatch(len, sizeOk) ==
    /\ pc = "iter"
    /\ batchNo < MaxBatches
    /\ batchNo' = batchNo + 1
    /\ batchLen' = len
    /\ nextIdx' = 0
    /\ state' = add_batch(state, len)
    /\ progress' = [progress EXCEPT !.len = state'.total_tiles]
    /\ current' = << >>
    /\ tally' = [tally EXCEPT !.refs = @ + len]
    /\ IF size_hint /\ ~sizeOk
       THEN /\ pc' = "done"
            /\ result' = Outcome("SetSizeError")
       ELSE /\ pc' = "stream"
            /\ UNCHANGED result
    /\ UNCHANGED notRun
    /\ UNCHANGED <<args, size_hint, flight, previous, throttle,
                   finalized, sinceStart, lastGap>>

\* buffer_unordered pulls the next tile reference and polls its future,
\* which sends the request
StartTile ==
    /\ pc = "stream"
    /\ CanStart
    /\ nextIdx' = nextIdx + 1
    /\ flight' = [id \in DOMAIN flight \cup {<<batchNo, nextIdx + 1>>} |->
                    IF id \in DOMAIN flight THEN flight[id]
                    ELSE [st |-> "fetching", failures |-> 0,
                          wait_time |-> args.retry_delay, remaining |-> 0,
                          slept |-> 0, attempts |-> 1]]
    /\ NoteStart
    /\ UNCHANGED notRun
    /\ UNCHANGED <<args, tally, size_hint, pc, state, progress, batchNo, batchLen,
                   previous, throttle, result, finalized, current>>

Remove(f, id) == [i \in DOMAIN f \ {id} |-> f[i]]

\* the loop body of download_batch for one yielded result, up to the
\* throttler gate
ProcessResult(id, o, ok) ==
    /\ progress' = [progress EXCEPT !.pos = progress.pos + 1]
    /\ state' = IF ok THEN set_tile_size(record_success(state)) ELSE state
    /\ current' = <<[id |-> id, ok |-> ok, attempts |-> flight[id].attempts,
                      outcome |-> o,
                      added |-> process_tile_result(ok, state.tile_size, size_hint)]>>
    /\ flight' = Remove(flight, id)
    /\ throttle' = throttle
    /\ tally' = IF ok THEN [tally EXCEPT !.ok = @ + 1]
                ELSE [tally EXCEPT !.err = @ + 1]
    /\ pc' = "throttle"

\* an attempt of a tile in flight ends with outcome o
AttemptResult(id, o) ==
    /\ pc = "stream"
    /\ ~CanStart
    /\ id \in DOMAIN flight
    /\ flight[id].st = "fetching"
    /\ IF DownloadOk(o)
       THEN ProcessResult(id, o, TRUE)
       ELSE IF GiveUp(flight[id].failures, args.retries)
       THEN ProcessResult(id, o, FALSE)
       ELSE /\ flight' = [flight EXCEPT ![id] =
                    [st |-> "sleeping", failures |-> @.failures + 1,
                     wait_time |-> NextWait(@.wait_time),
                     remaining |-> @.wait_time, slept |-> @.wait_time,
                     attempts |-> @.attempts]]
            /\ UNCHANGED <<pc, state, progress, throttle, current, tally>>
    /\ UNCHANGED notRun
    /\ UNCHANGED <<args, size_hint, batchNo, batchLen, nextIdx, previous,
                   result, finalized, sinceStart, lastGap>>

\* the back-off sleep of a tile is over: the next attempt starts
RetryStart(id) ==
    /\ pc = "stream"
    /\ ~CanStart
    /\ id \in DOMAIN flight
    /\ flight[id].st = "sleeping"
    /\ flight[id].remaining = 0
    /\ flight' = [flight EXCEPT ![id].st = "fetching",
                                ![id].attempts = @ + 1]
    /\ NoteStart
    /\ UNCHANGED notRun
    /\ UNCHANGED <<args, tally, size_hint, pc, state, progress, batchNo, batchLen,
                   nextIdx, previous, throttle, result, finalized,
                   current>>

\* throttler.wait() returns and the loop polls the stream again
ThrottleRelease ==
    /\ pc = "throttle"
    /\ ThrottlerReady(throttle, args.min_interval)
    /\ throttle' = 0
    /\ current' = << >>
    /\ pc' = "stream"
    /\ UNCHANGED notRun
    /\ UNCHANGED <<args, tally, size_hint, state, progress, batchNo, batchLen, nextIdx,
                   flight, previous, result, finalized, sinceStart, lastGap>>

\* the stream ends: download_batch returns Ok and the fetch result is set
BatchDone ==
    /\ pc = "stream"
    /\ StreamExhausted
    /\ previous' = <<create_fetch_result(state)>>
    /\ pc' = "iter"
    /\ UNCHANGED notRun
    /\ UNCHANGED <<args, tally, size_hint, state, progress, batchNo, batchLen, nextIdx,
                   flight, throttle, result, finalized, current,
                   sinceStart, lastGap>>

\* next_tile_references returns None: validation, finalisation, result
Finish(finalizeOk) ==
    /\ pc = "iter"
    /\ pc' = "done"
    /\ IF validate_download_success(state) # "Ok"
       THEN /\ result' = Outcome(validate_download_success(state))
            /\ UNCHANGED finalized
       ELSE IF ~finalizeOk
       THEN /\ result' = Outcome("FinalizeError")
            /\ UNCHANGED finalized
       ELSE /\ finalized' = TRUE
            /\ result' = determine_final_result(state)
    /\ UNCHANGED notRun
    /\ UNCHANGED <<args, tally, size_hint, state, progress, batchNo, batchLen, nextIdx,
                   flight, previous, throttle, current,
                   sinceStart, lastGap>>

\* one unit of wall time passes
Tick ==
    /\ pc \in {"stream", "throttle"}
    /\ flight' = [id \in DOMAIN flight |->
                    IF flight[id].remaining > 0
                    THEN [flight[id] EXCEPT !.remaining = @ - 1]
                    ELSE flight[id]]
    /\ throttle' = Min(throttle + 1, args.min_interval)
    /\ sinceStart' = IF sinceStart = -1 THEN -1
                      ELSE Min(sinceStart + 1, args.min_interval)
    /\ <<flight', throttle', sinceStart'>> # <<flight, throttle, sinceStart>>
    /\ UNCHANGED notRun
    /\ UNCHANGED <<args, tally, size_hint, pc, state, progress, batchNo, batchLen,
                   nextIdx, previous, result, finalized, current,
                   lastGap>>

Next ==
    \/ \E len \in 1..MaxBatchLen, sizeOk \in BOOLEAN : NextBatch(len, sizeOk)
    \/ StartTile
    \/ \E id \in DOMAIN flight, o \in AttemptOutcomes : AttemptResult(id, o)
    \/ \E id \in DOMAIN flight : RetryStart(id)
    \/ ThrottleRelease
    \/ BatchDone
    \/ \E finalizeOk \in BOOLEAN : Finish(finalizeOk)
    \/ Tick

\* one download at a time behind a throttler that waits, or two at a time
\* behind one that does not; one retry
InitLive ==
    /\ Init
    /\ args.retries = 1
    /\ <<args.parallelism, args.min_interval>> \in {<<1, 1>>, <<2, 0>>}

\* The run under a fair scheduler: the runtime keeps polling the futures,
\* every request ends, and time passes, so a step that can be taken is
\* taken at some time.
SpecLive == InitLive /\ [][Next]_vars /\ WF_vars(Next)

\* Canvas::add_tile
add_tile(tile) ==
    /\ canvas.adds < MaxTiles
    /\ LET icc == CaptureIcc(canvas.icc_profile, tile)
           size == CopiedSize(tile, canvas.size)
           loop == CopyLoop(tile, size)
       IN  IF ~PositionAccepted(tile, canvas.size)
           THEN /\ canvas' = [canvas EXCEPT !.icc_profile = icc, !.adds = @ + 1]
                /\ lastAdd' = <<[tile |-> tile, res |-> "Err"]>>
                /\ UNCHANGED expected
           ELSE IF \E w \in loop : <<w[1], w[2]>> \notin DOMAIN canvas.image
           THEN \* put_pixel panics out of bounds
                /\ canvas' = [canvas EXCEPT !.icc_profile = icc, !.adds = @ + 1]
                /\ lastAdd' = <<[tile |-> tile, res |-> "panic"]>>
                /\ UNCHANGED expected
           ELSE /\ canvas' = [canvas EXCEPT
                                !.icc_profile = icc, !.adds = @ + 1,
                                !.image = Written(@, canvas.writer, tile, loop)]
                /\ lastAdd' = <<[tile |-> tile, res |-> "Ok"]>>
                /\ expected' = [c \in DOMAIN expected |->
                                   IF Covers(tile, c)
                                   THEN from_rgba(canvas.writer,
                                           TilePixel(tile, c[1] - tile.position.x,
                                                           c[2] - tile.position.y))
                                   ELSE expected[c]]

\* the tiles handed to the (canvas.adds + 1)-th add_tile call
Tiles ==
    { [k |-> canvas.adds + 1, position |-> Vec(px, py), size |-> Vec(sx, sy),
       icc_profile |-> IF icc THEN canvas.adds + 1 ELSE 0] :
        px \in 0..(canvas.size.x + 1), py \in 0..(canvas.size.y + 1),
        sx \in TileSides, sy \in TileSides, icc \in BOOLEAN }

\* add_tile is called on a canvas
AddTile(tile) ==
    /\ add_tile(tile)
    /\ UNCHANGED batch
    /\ UNCHANGED notCanvas

CanvasNext == \E tile \in Tiles : AddTile(tile)

\* the loop body of download_batch for one result of the batch, as far as
\* the canvas goes: process_tile_result, set_tile_size, canvas.add_tile
YieldResult(r) ==
    /\ r \in batch.refs
    /\ IF r.ok
       THEN /\ add_tile([k |-> r.k, position |-> r.position, size |-> r.size,
                         icc_profile |-> r.icc_profile])
            /\ batch' = [batch EXCEPT !.refs = @ \ {r}, !.tile_size = <<r.size>>]
       ELSE IF batch.tile_size # << >>
       THEN /\ add_tile(EmptyTile(r.position,
                   max_size_in_rect(r.position, batch.tile_size[1], canvas.size)))
            /\ batch' = [batch EXCEPT !.refs = @ \ {r}]
       ELSE /\ batch' = [batch EXCEPT !.refs = @ \ {r}]
            /\ UNCHANGED <<canvas, lastAdd, expected>>
    /\ UNCHANGED notCanvas

BatchNext == \E r \in batch.refs : YieldResult(r)

\* the tiles handed to a PNG encoder
PngTiles == { [icc_profile |-> p] : p \in {0} \cup Profiles }

\* PngEncoder::add_tile; the header is written, and the streamer takes the
\* tile, with or without an I/O error
png_add_tile(tile, headerOk, streamOk) ==
    /\ Len(png.tiles) < MaxTiles
    /\ png.res # "panic"
    /\ LET seen == [png EXCEPT !.tiles = Append(@, tile.icc_profile)]
           wrote == write_header_with_profile(seen, tile.icc_profile, headerOk)
           after == IF png.first_tile THEN [wrote EXCEPT !.first_tile = FALSE]
                    ELSE seen
       IN  IF png.first_tile /\ wrote.res # "Ok"
           THEN png' = wrote
           ELSE IF ~after.pixel_streamer
           THEN png' = [after EXCEPT !.res = "panic"]
           ELSE png' = [after EXCEPT !.res = IF streamOk THEN "Ok" ELSE "Err"]
    /\ UNCHANGED notPng

\* PngEncoder::finalize; the header is written when no tile was added, and
\* the streamer is taken and finalised, with or without an I/O error
png_finalize(headerOk, streamOk) ==
    /\ png.res # "panic"
    /\ LET wrote == write_header_with_profile(png, 0, headerOk)
           after == IF png.first_tile THEN wrote ELSE png
       IN  IF png.first_tile /\ wrote.res # "Ok"
           THEN png' = wrote
           ELSE IF ~after.pixel_streamer
           THEN png' = [after EXCEPT !.res = "panic"]
           ELSE IF ~streamOk
           THEN png' = [after EXCEPT !.pixel_streamer = FALSE, !.res = "Err"]
           ELSE png' = [after EXCEPT !.pixel_streamer = FALSE, !.res = "Ok",
                                     !.finalized = TRUE]
    /\ UNCHANGED notPng

PngNext ==
    \/ \E tile \in PngTiles, headerOk \in BOOLEAN, streamOk \in BOOLEAN :
          png_add_tile(tile, headerOk, streamOk)
    \/ \E headerOk \in BOOLEAN, streamOk \in BOOLEAN : png_finalize(headerOk, streamOk)

Spec == Init /\ [][Next]_vars

SpecCanvas == InitCanvas /\ [][CanvasNext]_vars

SpecBatch == InitBatch /\ [][BatchNext]_vars

SpecPng == InitPng /\ [][PngNext]_vars

\* get_dezoomer_result calls the dezoomer: the auto dezoomer prioritises and
\* enters its loop
CallDezoomer(most) ==
    /\ load.pc = "call"
    /\ load.calls < most
    /\ load' = [load EXCEPT !.pc = "in_call", !.calls = @ + 1]
    /\ auto' = [prioritize_for_url_if_needed(auto, load.i.uri) EXCEPT
                  !.i = 0, !.asked = FALSE, !.visited = 0,
                  !.atStart = Len(auto.dezoomers), !.last = << >>]
    /\ UNCHANGED notAuto

\* one turn of the while loop: candidate i answers resp
Invoke(resp) ==
    /\ load.pc = "in_call"
    /\ auto.i # Len(auto.dezoomers)
    /\ LET name == auto.dezoomers[auto.i + 1]
           stepped == IF load.entry = "zoom_levels"
                      THEN zoom_levels_step(auto, resp)
                      ELSE dezoomer_result_step(auto, resp)
       IN  /\ auto' = [stepped EXCEPT
                         !.asked = @ \/ resp.kind = "NeedsData",
                         !.visited = @ + 1,
                         !.last = <<[name |-> name, resp |-> resp]>>,
                         !.dropped = IF resp.kind = "Err"
                                     THEN Append(@, [name |-> name, error |-> resp.error,
                                                     pass |-> load.calls])
                                     ELSE @,
                         !.succeeded = @ \/ resp.kind = "Ok",
                         !.found = IF resp.kind = "Ok"
                                   THEN Append(@, [name |-> name, pass |-> load.calls])
                                   ELSE @]
           /\ IF load.entry = "dezoomer_result" /\ resp.kind = "Ok"
              THEN load' = [load EXCEPT !.pc = "done",
                               !.ret = <<Returned("Ok", << >>, << >>, <<name>>)>>]
              ELSE UNCHANGED load
    /\ UNCHANGED notAuto

\* the loop is over: the auto dezoomer returns, and get_dezoomer_result
\* returns too unless it is asked for data
EndPass ==
    /\ load.pc = "in_call"
    /\ auto.i = Len(auto.dezoomers)
    /\ LET end == IF load.entry = "zoom_levels" THEN zoom_levels_end(auto)
                  ELSE dezoomer_result_end(auto)
       IN  /\ auto' = end.auto
           /\ IF end.ret.kind = "NeedsData"
              THEN load' = [load EXCEPT !.pc = "fetch", !.needs = <<end.ret.uri>>]
              ELSE load' = [load EXCEPT !.pc = "done", !.ret = <<end.ret>>]
    /\ UNCHANGED notAuto

\* fetch_uri returns, with the bytes or with an error
Fetch(ok) ==
    /\ load.pc = "fetch"
    /\ LET uri == load.needs[1]
           fetched == [uri |-> uri, ok |-> ok]
       IN  load' = [load EXCEPT !.pc = "call", !.fetched = <<fetched>>,
                                !.i = NextInput(@, uri, IntoContents(fetched))]
    /\ UNCHANGED auto
    /\ UNCHANGED notAuto

Call == CallDezoomer(MaxCalls)

AutoNext ==
    \/ Call
    \/ \E resp \in Responses : Invoke(resp)
    \/ EndPass
    \/ \E ok \in BOOLEAN : Fetch(ok)

SpecAuto == InitAuto /\ [][AutoNext]_vars

\* the runs in which every candidate answers NeedsData MaxAsks times at
\* most: a candidate still in the list has asked in every pass before
CallUntilDone == CallDezoomer(MaxPasses)

InvokeAsking(resp) ==
    /\ resp.kind = "NeedsData" => load.calls <= MaxAsks
    /\ Invoke(resp)

AutoLiveNext ==
    \/ CallUntilDone
    \/ \E resp \in Responses : InvokeAsking(resp)
    \/ EndPass
    \/ \E ok \in BOOLEAN : Fetch(ok)

\* the runs checked for termination: those over two candidates
InitAutoLive == InitAuto /\ Len(auto.dezoomers) = 2

\* get_dezoomer_result is sequential code that goes on, and every fetch
\* completes
SpecAutoLive == InitAutoLive /\ [][AutoLiveNext]_vars /\ WF_vars(AutoLiveNext)

\* a call of prioritize_dezoomers_for_url returns
Prioritize ==
    /\ ~prio.done
    /\ prio' = [prio EXCEPT !.result = prioritize_dezoomers_for_url(prio.url, prio.dezoomers),
                            !.done = TRUE]
    /\ UNCHANGED notPrio

PrioNext == Prioritize

SpecPrio == InitPrio /\ [][PrioNext]_vars

(* ------------------- calls of functions without side effects ---------- *)
\* the call returns
Returns(value) ==
    /\ ~fn.done
    /\ fn' = [fn EXCEPT !.out = <<value>>, !.done = TRUE]
    /\ UNCHANGED notFn

call_max_size_in_rect ==
    /\ fn.op = "max_size_in_rect"
    /\ Returns(max_size_in_rect(fn.in.position, fn.in.tile_size, fn.in.canvas_size))

call_choose_level(picked) ==
    /\ fn.op = "choose_level"
    /\ picked < Len(fn.in.levels)
    /\ Returns(choose_level(fn.in.levels, fn.in.args, picked))

call_choose_image(picked) ==
    /\ fn.op = "choose_image"
    /\ picked < fn.in.count
    /\ Returns(choose_image(fn.in.count, fn.in.args, picked))

call_create_tile_downloader ==
    /\ fn.op = "create_tile_downloader"
    /\ Returns(create_tile_downloader(fn.in.level_headers, fn.in.args_headers))

\* the function of this name of lib.rs, and that of main.rs
call_generate_bulk_output_name ==
    /\ fn.op = "generate_bulk_output_name"
    /\ Returns([lib |-> generate_bulk_output_name(fn.in.base_outfile, fn.in.index),
                main |-> main_generate_bulk_output_name(fn.in.base_outfile, fn.in.index)])

\* clap parses the value of a duration option; the build has overflow
\* checks or has none
call_parse_duration ==
    /\ fn.op = "parse_duration"
    /\ \E overflow_checks \in BOOLEAN : Returns(parse_duration(fn.in, overflow_checks))

\* one turn of the loop of dezoomify_level: download_batch for the next
\* batch and set_fetch_result; the results of the turns are kept
call_download_batch ==
    /\ fn.op = "download_batch"
    /\ ~fn.done
    /\ LET n == Len(fn.out) + 1
           s == IF n = 1 THEN DownloadStateDefault ELSE fn.out[n - 1].state
       IN  fn' = [fn EXCEPT
                     !.out = Append(@, download_batch(fn.in.batches[n],
                                                      fn.in.canvas_size, s)),
                     !.done = n = Len(fn.in.batches)]
    /\ UNCHANGED notFn

\* process_bulk runs up to its loop
call_process_bulk(r, images) ==
    /\ fn.op = "process_bulk" /\ ~fn.done /\ fn.out[1].pc = "discover"
    /\ (r = "NoBulkUrl") <=> ~fn.in.bulk
    /\ LET p == process_bulk_discover(fn.out[1], r, images)
       IN  fn' = [fn EXCEPT !.out = <<p>>, !.done = p.pc = "done"]
    /\ UNCHANGED notFn

\* one turn of the loop of process_bulk
call_process_bulk_image(outcome) ==
    /\ fn.op = "process_bulk" /\ ~fn.done /\ fn.out[1].pc = "image"
    /\ LET p == process_bulk_image(fn.out[1], outcome)
       IN  fn' = [fn EXCEPT !.out = <<p>>, !.done = p.pc = "done"]
    /\ UNCHANGED notFn

call_process_image_urls ==
    /\ fn.op = "process_image_urls"
    /\ Returns(process_image_urls(fn.in.urls))

FnNext ==
    \/ call_max_size_in_rect
    \/ call_process_image_urls
    \/ \E r \in {"NoBulkUrl", "client", "get_images_from_uri", "current_dir", "Ok"},
          images \in 0..MaxUrls : call_process_bulk(r, images)
    \/ \E outcome \in ImageOutcomes : call_process_bulk_image(outcome)
    \/ call_download_batch
    \/ call_parse_duration
    \/ call_generate_bulk_output_name
    \/ call_create_tile_downloader
    \/ \E picked \in -1..(MaxLevels - 1) : call_choose_level(picked)
    \/ \E picked \in -1..(MaxLevels - 1) : call_choose_image(picked)

SpecFn == InitFn /\ [][FnNext]_vars

(* ----------------------- a run of the program ------------------------- *)
\* main.rs main up to the first call of dezoomify; in bulk mode the
\* beginning of process_bulk is part of it
Main(urls) ==
    /\ main.pc = "main"
    /\ ~main.bulk => urls = <<0>>
    /\ main' = IF ~main.bulk THEN StartDezoomify(main, main.outfile)
               ELSE IF urls = << >> THEN Exit([main EXCEPT !.has_errors = TRUE])
               ELSE BulkLoop([main EXCEPT !.urls = urls[1]])
    /\ UNCHANGED notMain

\* the options choose_level looks at, on a command line that gives none of them
LevelArgs(m) ==
    [zoom_level |-> << >>, largest |-> FALSE, bulk |-> m.bulk,
     max_width |-> << >>, max_height |-> << >>]

\* lib.rs find_zoomlevel: the URL (asked for at the prompt when the command
\* line has none), the images and the choice of an image (r: "NoLevels" is
\* choose_image on an empty list), then the zoom levels of the selected
\* image and choose_level
FindZoomlevel(r, levels, picked) ==
    /\ main.pc = "dezoomify" /\ Step(main) = "find_zoomlevel"
    /\ r = "NoInput" => ~main.bulk /\ main.input_uri = << >>
    /\ ~main.has_args /\ Len(main.results) >= MaxUrls => r = "NoInput"
    /\ r # "Ok" => levels = << >>
    /\ picked < Len(levels)
    /\ LET found == Logged(main, IF levels = << >> THEN "no zoom levels" ELSE "zoom levels")
           chosen == choose_level(levels, LevelArgs(main), picked)
       IN  main' = IF r # "Ok" THEN DezoomifyReturned(main, r)
                   ELSE IF chosen.kind = "Ok" THEN Advance(found, "find_zoomlevel")
                   ELSE DezoomifyReturned(found, chosen.kind)
    /\ UNCHANGED notMain

\* std::env::current_dir()?
CurrentDir(ok) ==
    /\ main.pc = "dezoomify" /\ Step(main) = "current_dir"
    /\ main' = IF ok THEN Advance(main, "current_dir") ELSE DezoomifyReturned(main, "Err")
    /\ UNCHANGED notMain

\* lib.rs prepare_output_path
PrepareOutputPath(ok) ==
    /\ main.pc = "dezoomify" /\ Step(main) = "prepare_output_path"
    /\ main' = IF ok THEN Advance(main, reserve_output_file(ok))
               ELSE DezoomifyReturned(Logged(main, reserve_output_file(ok)), "Err")
    /\ UNCHANGED notMain

\* lib.rs create_tile_buffer
CreateTileBuffer(ok) ==
    /\ main.pc = "dezoomify" /\ Step(main) = "create_tile_buffer"
    /\ main' = IF ok THEN Advance(main, "create_tile_buffer") ELSE DezoomifyReturned(main, "Err")
    /\ UNCHANGED notMain

\* lib.rs dezoomify_level up to its loop: TileDownloadCoordinator::new
StartLevel(ok) ==
    /\ main.pc = "dezoomify" /\ Step(main) = "dezoomify_level" /\ ~main.call.started
    /\ main' = IF ok THEN [main EXCEPT !.call.started = TRUE] ELSE DezoomifyReturned(main, "Err")
    /\ UNCHANGED notMain

\* one turn of the loop of dezoomify_level: download_batch for a batch of
\* count tiles, of which so many are received
DownloadBatch(count, successes, canvasOk) ==
    /\ main.pc = "dezoomify" /\ Step(main) = "dezoomify_level" /\ main.call.started
    /\ main.call.batches < MaxBatches
    /\ main' = IF ~canvasOk THEN DezoomifyReturned(main, "Err")
               ELSE [Logged(main, "fetch_tiles") EXCEPT
                        !.call.batches = @ + 1,
                        !.call.state = record_successes(add_batch(@, count), successes)]
    /\ UNCHANGED notMain

\* the end of dezoomify_level, and of dezoomify
FinishLevel(finalizeOk) ==
    /\ main.pc = "dezoomify" /\ Step(main) = "dezoomify_level" /\ main.call.started
    /\ main' = IF validate_download_success(main.call.state) # "Ok" THEN DezoomifyReturned(main, "Err")
               ELSE IF ~finalizeOk THEN DezoomifyReturned(main, "Err")
               ELSE DezoomifyReturned(main, determine_final_result(main.call.state).kind)
    /\ UNCHANGED notMain

MainNext ==
    \/ \E urls \in read_bulk_urls : Main(urls)
    \/ \E r \in {"Ok", "Err", "Eof", "NoInput", "NoLevels"},
          levels \in LevelLists(2), picked \in -1..1 :
          FindZoomlevel(r, levels, picked)
    \/ \E ok \in BOOLEAN : CurrentDir(ok)
    \/ \E ok \in BOOLEAN : PrepareOutputPath(ok)
    \/ \E ok \in BOOLEAN : CreateTileBuffer(ok)
    \/ \E ok \in BOOLEAN : StartLevel(ok)
    \/ \E count \in 1..MaxTiles, canvasOk \in BOOLEAN :
          \E successes \in 0..count : DownloadBatch(count, successes, canvasOk)
    \/ \E finalizeOk \in BOOLEAN : FinishLevel(finalizeOk)

SpecMain == InitMain /\ [][MainNext]_vars


(* ----------------------------- properties ------------------------------ *)
\* C1: once the canvas is finalised, dezoomify_level returns PartialDownload
\* (carrying the cumulative counters) exactly when the cumulative
\* successful_tiles is smaller than the cumulative total_tiles, and Ok exactly
\* when the two are equal, wherever the failed tiles fall among the batches.
C1_PartialIffCumulativeFailure ==
    (pc = "done" /\ finalized) =>
        /\ (result.kind = "PartialDownload")
              <=> (state.successful_tiles < state.total_tiles)
        /\ (result.kind = "Ok") <=> (state.successful_tiles = state.total_tiles)
        /\ (result.kind = "PartialDownload") =>
              /\ result.successful_tiles = state.successful_tiles
              /\ result.total_tiles = state.total_tiles

\* the download phase ran through all the batches the zoom level yields
\* (no batch was aborted by a fatal canvas error)
DownloadPhaseEnded == pc = "done" /\ result.kind # "SetSizeError"

C3_StartsAtLeastMinIntervalApart ==
    (args.min_interval > 0 /\ lastGap # -1) => lastGap >= args.min_interval

\* C4: when the last attempt of a tile fails (at fetch, post-processing or
\* decoding) and an error is reported for it, exactly retries + 1 attempts
\* were made; a tile is reported Ok with its first successful attempt and
\* is not in flight any more; the attempts of each tile in flight follow
\* from its own failures alone.
C4_RetryLaw ==
    /\ current # << >> =>
          /\ (current[1].outcome # "ok") =>
                (~current[1].ok /\ current[1].attempts = args.retries + 1)
          /\ (current[1].outcome = "ok") =>
                (current[1].ok /\ current[1].attempts <= args.retries + 1)
          /\ current[1].id \notin DOMAIN flight
    /\ \A id \in DOMAIN flight :
          /\ flight[id].failures <= args.retries
          /\ flight[id].attempts =
                flight[id].failures + (IF flight[id].st = "fetching" THEN 1 ELSE 0)

\* with retries = 2 a tile is reported failed after three attempts while
\* another tile of the batch is still at its first attempt
C4_Witness ==
    /\ current # << >>
    /\ ~current[1].ok /\ current[1].attempts = 3 /\ args.retries = 2
    /\ \E id \in DOMAIN flight : flight[id].attempts = 1

\* C5: the wait before the k-th retry of a tile is retry_delay * 2^(k-1),
\* and the retry does not start before that wait is over.
C5_BackoffLaw ==
    \A id \in DOMAIN flight :
        flight[id].failures >= 1 =>
            /\ flight[id].slept = args.retry_delay * 2 ^ (flight[id].failures - 1)
            /\ flight[id].remaining <= flight[id].slept
            /\ flight[id].st = "fetching" => flight[id].remaining = 0

\* a tile is in its second retry, after waiting twice the retry delay
C5_Witness ==
    \E id \in DOMAIN flight :
        /\ flight[id].failures = 2 /\ flight[id].st = "fetching"
        /\ flight[id].slept = 2 * args.retry_delay

\* C6: at most parallelism tile downloads are in flight at any moment.
C6_InFlightAtMostParallelism == Cardinality(DOMAIN flight) <= args.parallelism

\* every slot is taken while tile references of the batch are still waiting
C6_Witness ==
    /\ args.parallelism >= 1
    /\ Cardinality(DOMAIN flight) = args.parallelism
    /\ nextIdx < batchLen

\* C7: whenever the zoom level is asked for the next batch, every tile of
\* the batches so far has completed and been processed and the fetch result
\* of the last batch has been set; the tiles in flight all belong to the
\* current batch.
C7_BatchesSequential ==
    /\ \A id \in DOMAIN flight : id[1] = batchNo
    /\ pc = "iter" =>
          /\ DOMAIN flight = {}
          /\ nextIdx = batchLen
          /\ progress.pos = state.total_tiles
          /\ batchNo > 0 =>
                /\ previous # << >>
                /\ previous[1].count = batchLen
                /\ previous[1].successes = state.last_batch_successes

\* a tile of the second batch is in flight, after a first batch of two tiles
C7_Witness ==
    /\ batchNo = 2 /\ DOMAIN flight # {}
    /\ state.total_tiles = 2 + batchLen
    /\ progress.pos >= 2

\* C8: successful_tiles <= total_tiles and
\* last_batch_successes <= last_batch_count in every state of a run.
C8_CountersBounded ==
    /\ state.successful_tiles <= state.total_tiles
    /\ state.last_batch_successes <= state.last_batch_count

\* every tile of two batches succeeded, the second batch being the smaller
C8_Witness ==
    /\ batchNo = 2 /\ pc = "iter"
    /\ state.last_batch_count = 1 /\ state.last_batch_successes = 1
    /\ state.successful_tiles = 3 /\ state.total_tiles = 3

\* C9: add_tile returns Ok if and only if position.x <= width and
\* position.y <= height, whatever the size of the tile; otherwise it
\* returns an error.
C9_AddTileOkIffPositionFits ==
    lastAdd # << >> =>
        LET tile == lastAdd[1].tile
            fits == /\ tile.position.x <= canvas.size.x
                    /\ tile.position.y <= canvas.size.y
        IN  /\ fits => lastAdd[1].res = "Ok"
            /\ ~fits => lastAdd[1].res = "Err"

\* a tile at the right edge of the canvas, reaching past it, was accepted
C9_Witness ==
    /\ lastAdd # << >>
    /\ lastAdd[1].res = "Ok"
    /\ lastAdd[1].tile.position.x = canvas.size.x
    /\ lastAdd[1].tile.size.x = 2

\* C10: every canvas pixel is the pixel (converted to the canvas' pixel
\* type) of the last accepted tile whose rectangle covers it, or the initial
\* zero pixel when there is none; a tile reaching past the canvas is written
\* up to the canvas edge.
C10_LastCoveringTileWins ==
    /\ canvas.image = expected
    /\ lastAdd # << >> => lastAdd[1].res # "panic"

\* the second tile reaches past the canvas and was written next to pixels
\* of the first tile and untouched pixels
C10_Witness ==
    /\ canvas.adds = 2 /\ lastAdd # << >> /\ lastAdd[1].res = "Ok"
    /\ ~fits_inside(bottom_right(lastAdd[1].tile), canvas.size)
    /\ \E c1, c2, c3 \in DOMAIN canvas.image :
          /\ canvas.image[c1].c[1] = 1
          /\ canvas.image[c2].c[1] = 2
          /\ canvas.image[c3].c = Black

\* the profile of the first tile, in arrival order, that carries one
FirstProfile(tiles) ==
    LET carrying == { i \in 1..Len(tiles) : tiles[i] # 0 }
    IN  IF carrying = {} THEN 0
        ELSE tiles[CHOOSE i \in carrying : \A j \in carrying : i <= j]

\* C11: the ICC profile embedded in the output of an encoder is the profile
\* of the first added tile that carries one (none only when no added tile
\* carries one): the header of a finalised PNG holds that profile, and a
\* canvas that was handed a profile holds one that is not a later tile's.
C11_FirstProfileEmbedded ==
    /\ png.finalized /\ png.header # << >> =>
          png.header[1] = FirstProfile(png.tiles)
    /\ lastAdd # << >> /\ lastAdd[1].tile.icc_profile # 0 =>
          canvas.icc_profile \in 1..lastAdd[1].tile.k

\* C12: get_dezoomer_result never returns NeedsData: it returns only Ok or
\* another error, and every call of the dezoomer after the first is made
\* with input.uri = the uri the dezoomer asked for, which is the uri that
\* was fetched, and with contents = the outcome of that fetch (the bytes, or
\* the fetch error).
C12_NeedsDataNeverSurfaces ==
    /\ load.ret # << >> => load.ret[1].kind \in {"Ok", "Err"}
    /\ load.pc = "done" => load.ret # << >>
    /\ load.fetched # << >> /\ load.pc \in {"call", "in_call", "done"} =>
          /\ load.fetched[1].uri = load.needs[1]
          /\ load.i.uri = load.needs[1]
          /\ load.i.contents.of = load.needs[1]
          /\ load.i.contents.kind =
                IF load.fetched[1].ok THEN "Success" ELSE "Error"

C12_Witness ==
    /\ load.pc = "done"
    /\ load.calls = 3
    /\ load.ret[1].kind = "Err"
    /\ ~load.fetched[1].ok
    /\ load.i.uri # << "x" >>

\* the call of the auto dezoomer has returned after invoking every
\* candidate its list held when the pass began
PassCompleted ==
    /\ load.pc \in {"fetch", "done"}
    /\ auto.visited = auto.atStart

\* C13: when a pass of the auto dezoomer over its candidates completes and a
\* candidate returned NeedsData during it, the call returns NeedsData with
\* one of the pending URIs (which leaves the pending list), not a success
\* or a failure; the pending list never holds a URI twice.
C13_PendingFetchSurfaces ==
    /\ Cardinality(Range(auto.needs_uris)) = Len(auto.needs_uris)
    /\ PassCompleted /\ auto.asked =>
          /\ load.pc = "fetch"
          /\ load.needs[1] \notin Range(auto.needs_uris)

\* C14: in every pass, the candidate invoked last is still in the candidate
\* list if it returned NeedsData and is no longer in it if it returned
\* success or any other error (so that no later pass invokes it), and the
\* list is never longer than when the pass began.
C14_OnlyPendingCandidatesStay ==
    /\ auto.last # << >> =>
          IF auto.last[1].resp.kind = "NeedsData"
          THEN auto.last[1].name \in Range(auto.dezoomers)
          ELSE auto.last[1].name \notin Range(auto.dezoomers)
    /\ load.calls > 0 => Len(auto.dezoomers) <= auto.atStart

\* C15: the auto dezoomer fails with the aggregated error only when no
\* fetch is pending and no candidate has succeeded, and the error then
\* lists, in the order they were dropped, every candidate dropped on a
\* non-NeedsData error since the auto dezoomer was created, with its error.
C15_AggregatedErrorIsComplete ==
    load.ret # << >> /\ load.ret[1].kind = "Err" =>
        /\ auto.needs_uris = << >>
        /\ ~auto.succeeded
        /\ Len(load.ret[1].errors) = Len(auto.dropped)
        /\ \A n \in 1..Len(auto.dropped) :
              /\ load.ret[1].errors[n].name = auto.dropped[n].name
              /\ load.ret[1].errors[n].error = auto.dropped[n].error

C15_Witness ==
    /\ load.ret # << >>
    /\ load.ret[1].kind = "Err"
    /\ Len(auto.dropped) = 3
    /\ auto.dropped[1].pass = 1
    /\ auto.dropped[2].pass = 2
    /\ auto.dropped[3].pass = 3
    /\ auto.dropped[1].error # auto.dropped[2].error

\* C16 as claimed: for every pattern of the table and every URL that
\* contains it, the first dezoomer of the list prioritize_dezoomers_for_url
\* returns is the one the table names for that pattern.
C16_EveryContainedPatternFirst ==
    prio.done =>
        \A n \in 1..Len(patterns) :
            Contains(prio.url, patterns[n][1]) => prio.result[1] = patterns[n][2]

\* C16 as amended: for every URL, the first dezoomer of the returned list
\* is the one the table names for the first pattern, in table order, that
\* the URL contains, provided the list given holds a dezoomer of that name.
C16_FirstContainedPatternFirst ==
    prio.done =>
        \A n \in 1..Len(patterns) :
            /\ Contains(prio.url, patterns[n][1])
            /\ \A m \in 1..(n - 1) : ~Contains(prio.url, patterns[m][1])
            /\ patterns[n][2] \in Range(prio.dezoomers)
            => prio.result[1] = patterns[n][2]

C16_Witness ==
    /\ prio.done
    /\ Contains(prio.url, patterns[4][1])
    /\ Contains(prio.url, patterns[8][1])
    /\ prio.result[1] = "deepzoom"
    /\ prio.dezoomers = all_dezoomers

\* C17: prioritize_dezoomers_for_url returns a permutation of the list it
\* is given, in which the dezoomers other than the one moved to the front
\* are in the order they had, and returns the list as it was when the URL
\* contains no pattern of the table, character for character.
C17_OthersKeepTheirOrder ==
    prio.done =>
        /\ Len(prio.result) = Len(prio.dezoomers)
        /\ Range(prio.result) = Range(prio.dezoomers)
        /\ SelectSeq(prio.result, LAMBDA d : d # prio.result[1])
             = SelectSeq(prio.dezoomers, LAMBDA d : d # prio.result[1])
        /\ (\A n \in 1..Len(patterns) : ~Contains(prio.url, patterns[n][1]))
             => prio.result = prio.dezoomers

C17_Witness ==
    /\ prio.done
    /\ prio.dezoomers = all_dezoomers
    /\ prio.result[1] = "deepzoom"
    /\ prio.result[2] = prio.dezoomers[1]
    /\ prio.result[5] = prio.dezoomers[4]
    /\ prio.result[6] = prio.dezoomers[6]

\* C18: a failed tile never ends the download loop: a failed result leaves
\* the loop at the throttler like any other, download_batch returns only
\* when every tile of the batch has been processed, and when the run ends
\* with tiles unprocessed it is because setting the canvas size failed;
\* NoTile and PartialDownload are results of the end of the run.
C18_TileFailuresStayInTheLoop ==
    /\ current # << >> => pc = "throttle"
    /\ pc = "iter" => progress.pos = state.total_tiles /\ DOMAIN flight = {}
    /\ pc = "done" /\ result.kind # "SetSizeError" =>
          progress.pos = state.total_tiles /\ DOMAIN flight = {}
    /\ result.kind \in {"NoTile", "PartialDownload"} =>
          pc = "done" /\ progress.pos = state.total_tiles

C18_Witness ==
    /\ pc = "done"
    /\ result.kind = "PartialDownload"
    /\ batchNo = 2
    /\ tally.refs = 4
    /\ tally.err = 3
    /\ state.last_batch_successes = 1

\* C19: the counters depend on the results the stream yielded, not on
\* their order: successful_tiles is the number of Ok results, the progress
\* bar has moved once per result, total_tiles is the number of tile
\* references of the batches, and when a batch is over every one of its
\* references has yielded one result.
C19_CountsIgnoreCompletionOrder ==
    /\ state.successful_tiles = tally.ok
    /\ progress.pos = tally.ok + tally.err
    /\ state.total_tiles = tally.refs
    /\ pc = "iter" \/ (pc = "done" /\ result.kind # "SetSizeError") =>
          tally.ok + tally.err = tally.refs

\* the second tile of a batch completes, Ok, before the first, which fails
C19_Witness ==
    /\ pc = "throttle"
    /\ batchNo = 2
    /\ current[1].id = <<2, 1>>
    /\ ~current[1].ok
    /\ DOMAIN flight = {}
    /\ state.last_batch_successes = 1
    /\ tally.ok = 2
    /\ tally.err = 2

\* the tiles of the batch have rectangles that do not overlap
RectanglesApart ==
    \A t \in batch.all, u \in batch.all : t # u => ~Overlap(t, u)

\* the canvas content the results of a batch call for, whatever their
\* order: the pixels of each tile that was downloaded, zero elsewhere
ImageOf(all, writer, size) ==
    [c \in Coords(size) |->
        IF \E t \in all : t.ok /\ Covers(t, c)
        THEN LET t == CHOOSE t \in all : t.ok /\ Covers(t, c)
             IN  from_rgba(writer, TilePixel(t, c[1] - t.position.x, c[2] - t.position.y))
        ELSE ZeroPixel(writer)]

\* C20: when the rectangles of the tiles of a batch do not overlap, the
\* canvas content once every result has been handled is the same whatever
\* order the results came in, failures included: the pixels of the tiles
\* that were downloaded, and zero elsewhere.
C20_CanvasIgnoresCompletionOrder ==
    batch.all # {} /\ batch.refs = {} /\ RectanglesApart =>
        canvas.image = ImageOf(batch.all, canvas.writer, canvas.size)

\* C21: a run configured with parallelism = 0 is rejected: download_batch
\* never has its stream of downloads open with zero download slots.
C21_ZeroParallelismRejected ==
    args.parallelism = 0 => pc # "stream"

\* the position in its batch of the result the loop body is handling
ResultIndex == progress.pos - (state.total_tiles - batchLen)

\* C22: with parallelism = 1 at most one download of a batch is in flight,
\* it is that of the tile reference pulled last, and the k-th result the
\* loop body of download_batch handles (and hands to the canvas) is that of
\* the k-th tile reference of the batch.
C22_OneSlotKeepsBatchOrder ==
    args.parallelism = 1 =>
        /\ Cardinality(DOMAIN flight) <= 1
        /\ \A id \in DOMAIN flight : id = <<batchNo, nextIdx>>
        /\ current # << >> => current[1].id = <<batchNo, ResultIndex>>

C22_Witness ==
    /\ args.parallelism = 1
    /\ batchNo = 2
    /\ current # << >>
    /\ current[1].id = <<2, 2>>
    /\ current[1].added = "empty"
    /\ current[1].attempts > 1

\* the header was written at most once, by the first add_tile or, when no
\* tile was added, by finalize, and exactly once when finalize returned Ok
HeaderWrittenOnce ==
    /\ Len(png.headers) <= 1
    /\ png.finalized => Len(png.headers) = 1
    /\ png.headers # << >> => png.headers[1] \in {0, 1}

C26_MaxSizeInRectClips ==
    fn.op = "max_size_in_rect" /\ fn.done
    /\ fits_inside(fn.in.position, fn.in.canvas_size) =>
        LET p == fn.in.position
            t == fn.in.tile_size
            c == fn.in.canvas_size
            r == fn.out[1]
        IN  /\ r = VecSub(VecMin(VecAdd(p, t), c), p)
            /\ r = Vec(Min(t.x, c.x - p.x), Min(t.y, c.y - p.y))
            /\ fits_inside(r, t)
            /\ fits_inside(VecAdd(p, r), c)
            /\ fits_inside(VecAdd(p, t), c) => r = t

C26_Witness ==
    /\ fn.op = "max_size_in_rect" /\ fn.done
    /\ fn.in.position = Vec(1, 0)
    /\ fn.in.tile_size = Vec(2, 1)
    /\ fn.in.canvas_size = Vec(2, 2)
    /\ fn.out = <<Vec(1, 1)>>

\* the number of items a call of choose_level or choose_image was given,
\* and the index asked for on the command line, if any
Available == IF fn.op = "choose_level" THEN Len(fn.in.levels) ELSE fn.in.count

RequestedIndex ==
    IF fn.op = "choose_level" THEN fn.in.args.zoom_level ELSE fn.in.args.image_index

\* C30: when a zoom level (or image) index is requested and at least one
\* item is available, the item selected is the requested one if there is
\* one and the last one otherwise; a selected index is always a valid one,
\* and the resolver is never called with no item available.
C30_RequestedIndexOrLast ==
    fn.op \in {"choose_level", "choose_image"} /\ fn.done =>
        LET r == fn.out[1]
        IN  /\ RequestedIndex # << >> /\ Available >= 1 =>
                  /\ r.kind = "Ok"
                  /\ r.index = IF RequestedIndex[1] < Available
                               THEN RequestedIndex[1] ELSE Available - 1
            /\ r.kind = "Ok" => r.index \in 0..(Available - 1)
            /\ \A i \in 1..Len(r.resolved) : r.resolved[i].available_count >= 1

C30_Witness ==
    /\ fn.op = "choose_level" /\ fn.done
    /\ Len(fn.in.levels) = 3
    /\ fn.in.args.zoom_level = <<3>>
    /\ fn.out[1].index = 2
    /\ fn.out[1].resolved # << >>

\* C24: the HTTP client built for tile downloads sends, for a header name
\* given at several levels, the value of the zoom level if the level gives
\* one, else the value of the user if the user gives one, else the built-in
\* default.
C24_LevelOverUserOverDefault ==
    fn.op = "create_tile_downloader" /\ fn.done /\ fn.out[1].kind = "Ok" =>
        \A name \in DOMAIN fn.out[1].sends :
            LET sent == fn.out[1].sends[name]
                level == values_of(fn.in.level_headers, name)
                user == values_of(fn.in.args_headers, name)
                default == values_of(default_headers, name)
            IN  IF level # << >> THEN sent \in Range(level)
                ELSE IF user # << >> THEN sent \in Range(user)
                ELSE default # << >> => sent \in Range(default)

\* stem_(i+1).ext next to the file stem.ext
Numbered(base, i) ==
    Path(base.dir, file_stem(base)[1] \o <<"_">> \o to_string(i + 1)
                       \o <<".">> \o extension(base)[1])

\* C27: in bulk mode with an explicit output file stem.ext, the image at
\* index i gets the output path stem_(i+1).ext in the same directory, from
\* the library's generate_bulk_output_name and from the binary's alike, so
\* two images of one run never get the same path.
C27_BulkNamesNumbered ==
    fn.op = "generate_bulk_output_name" /\ fn.done
    /\ extension(fn.in.base_outfile) # << >> =>
        /\ fn.out[1].lib = Numbered(fn.in.base_outfile, fn.in.index)
        /\ fn.out[1].main = Numbered(fn.in.base_outfile, fn.in.index)
        /\ \A j \in 0..MaxIndex : j # fn.in.index =>
              /\ generate_bulk_output_name(fn.in.base_outfile, j) # fn.out[1].lib
              /\ main_generate_bulk_output_name(fn.in.base_outfile, j) # fn.out[1].main

\* the units of a duration and the nanoseconds in one of each
DurationUnits ==
    { [text |-> <<"n", "s">>, zeros |-> 0, times |-> 1],
      [text |-> <<"m", "s">>, zeros |-> 6, times |-> 1],
      [text |-> <<"s">>, zeros |-> 9, times |-> 1],
      [text |-> <<"m", "i", "n">>, zeros |-> 9, times |-> 60] }

\* the nanoseconds of a duration, and of a number of a unit
as_nanos(d) ==
    Strip(d.secs \o [i \in 1..(9 - Len(digits_of(d.nanos))) |-> 0] \o digits_of(d.nanos))
nanos_of(ds, unit) == Strip(MulSmall(Strip(ds), unit.times) \o [i \in 1..unit.zeros |-> 0])

\* the ways to read a string as decimal digits, optional whitespace and a unit
Readings(s) ==
    { r \in [digits : 1..Len(s), unit : DurationUnits] :
        /\ \A i \in 1..r.digits : s[i] \in AsciiDigits
        /\ Len(s) >= r.digits + Len(r.unit.text)
        /\ SubSeq(s, Len(s) - Len(r.unit.text) + 1, Len(s)) = r.unit.text
        /\ \A i \in (r.digits + 1)..(Len(s) - Len(r.unit.text)) : s[i] \in is_space }
DigitsOf(s, r) == [i \in 1..r.digits |-> CHOOSE d \in 0..9 : Digit(d) = s[i]]

\* C28: parse_duration accepts exactly the strings made of decimal digits,
\* optional whitespace and one of the units ns, ms, s, min, and returns the
\* duration that is the parsed number of that unit; every other string is
\* rejected with an error.
C28_ParseDurationGrammar ==
    fn.op = "parse_duration" /\ fn.done =>
        IF Readings(fn.in) = {} THEN fn.out[1] = Err
        ELSE /\ fn.out[1].res = "Ok"
             /\ \E r \in Readings(fn.in) :
                   as_nanos(fn.out[1].val) = nanos_of(DigitsOf(fn.in, r), r.unit)

\* C23: the exit code is 0 only when every requested image was downloaded
\* completely: a run that ends with the code 0 had no image that failed or
\* ended in a PartialDownload, and in bulk mode it went through every URL.
C23_ExitZeroOnlyWhenAllComplete ==
    main.pc = "exit" /\ main.code = <<0>> =>
        /\ \A i \in 1..Len(main.results) : main.results[i] = "Ok"
        /\ main.bulk => Len(main.results) = main.urls

\* an event of a call of dezoomify has the reservation of the output file before it
AfterReservation(log, i) == \E j \in 1..(i - 1) : log[j] = "reserve_output_file"

\* the events of the call of dezoomify that is running or was the last to
\* run, and of the one before it
CallLogs == {main.log, main.last_log}

\* C25: in every call of dezoomify the output file is reserved before the
\* tile buffer is created and before the first tile is fetched, and a call
\* whose reservation failed fetches no tile.
C25_OutputFileReservedFirst ==
    \A log \in CallLogs :
        /\ \A i \in 1..Len(log) :
              log[i] \in {"create_tile_buffer", "fetch_tiles"} => AfterReservation(log, i)
        /\ (\E i \in 1..Len(log) : log[i] = "reserve_output_file failed") =>
              \A i \in 1..Len(log) : log[i] # "fetch_tiles"

\* one call fetched tiles into a reserved file, another ended at a
\* reservation that failed
C25_Witness ==
    /\ \E log \in CallLogs : \E i \in 1..Len(log) :
          log[i] = "fetch_tiles" /\ AfterReservation(log, i)
    /\ \E log \in CallLogs :
          log # << >> /\ log[Len(log)] = "reserve_output_file failed"

\* the results that arrived in a run before the i-th result of its n-th batch
RECURSIVE Arrived(_, _)
Arrived(n, i) ==
    IF n = 0 THEN << >>
    ELSE Arrived(n - 1, Len(fn.in.batches[n - 1]) + 1) \o SubSeq(fn.in.batches[n], 1, i - 1)

\* the size of the last tile of some results that succeeded, if any
LastSucceededSize(results) ==
    LET oks == { j \in 1..Len(results) : results[j].ok }
    IN  IF oks = {} THEN << >>
        ELSE <<results[CHOOSE j \in oks : \A l \in oks : l <= j].tile.size>>

\* the batches of a run that were downloaded, and the failed tiles of one
Downloaded == IF fn.op = "download_batch" THEN 1..Len(fn.out) ELSE {}
Failed(n) == { i \in 1..Len(fn.in.batches[n]) : ~fn.in.batches[n][i].ok }

\* C31: for a failed tile the coordinator adds an all-zero tile without
\* metadata at the tile's position, of the size max_size_in_rect(position,
\* last known tile size, canvas size), exactly when an earlier tile of the
\* run succeeded and the level has a size hint, and nothing otherwise; the
\* remembered tile size is after a failed tile what it was before it.
C31_EmptyTileForFailedTile ==
    \A n \in Downloaded : \A i \in Failed(n) :
        LET known == LastSucceededSize(Arrived(n, i))
            position == fn.in.batches[n][i].position
        IN  /\ fn.out[n].added[i] =
                  IF known # << >> /\ fn.in.canvas_size # << >>
                  THEN <<[k |-> 0, position |-> position, icc_profile |-> 0,
                          size |-> max_size_in_rect(position, known[1],
                                                    fn.in.canvas_size[1])]>>
                  ELSE << >>
            /\ fn.out[n].sizes[i] = (IF i = 1 THEN fn.out[n].before
                                     ELSE fn.out[n].sizes[i - 1])
            /\ fn.out[n].sizes[i] = known

\* a failed tile before the first success got nothing, a later one an
\* empty tile clipped at the edge of the canvas
C31_Witness ==
    /\ \E n \in Downloaded : \E i \in Failed(n) : fn.out[n].added[i] = << >>
    /\ \E n \in Downloaded : \E i \in Failed(n) :
          /\ fn.out[n].added[i] # << >>
          /\ fn.out[n].added[i][1].size # LastSucceededSize(Arrived(n, i))[1]

\* C32: the fetch result handed to the iterator after a batch has the
\* number of tile references of that batch as its count, the number of
\* tiles of that batch that succeeded as its successes, and the size of the
\* tile of the run that succeeded last, if any, as its tile_size.
C32_FetchResultOfLastBatch ==
    \A n \in Downloaded :
        fn.out[n].fetch_result =
            [count |-> Len(fn.in.batches[n]),
             successes |-> Cardinality({ i \in 1..Len(fn.in.batches[n]) :
                                           fn.in.batches[n][i].ok }),
             tile_size |-> LastSucceededSize(Arrived(n, Len(fn.in.batches[n]) + 1))]

\* a second batch without a success after a first batch with one
C32_Witness ==
    /\ fn.op = "download_batch" /\ Len(fn.out) >= 2
    /\ fn.out[1].fetch_result.successes > 0
    /\ fn.out[2].fetch_result.successes = 0
    /\ fn.out[2].fetch_result.tile_size # << >>

\* C33: a run of dezoomify_level with parallelism >= 1 returns at some
\* time; it leaves the download phase for the validation only in the step
\* in which next_tile_references returns none (the other way out is a fatal
\* canvas error), and the canvas is finalised in that step only.
C33_LevelRunReturns ==
    /\ (args.parallelism >= 1) ~> (pc = "done")
    /\ [][(pc # "done" /\ pc' = "done") =>
              (pc = "iter" /\ (result'.kind # "SetSizeError" => flight = << >>))]_vars
    /\ [][(~finalized /\ finalized') => (pc = "iter" /\ pc' = "done")]_vars

\* a run of all the batches with some tile retried has returned, finalised
C33_Witness ==
    /\ pc = "done" /\ finalized /\ args.parallelism >= 1
    /\ batchNo = MaxBatches /\ state.total_tiles > state.successful_tiles

\* canvas.finalize() was called in the run: it returned Ok or its error
FinalizeCalled == finalized \/ (pc = "done" /\ result.kind = "FinalizeError")

\* C37: a run of dezoomify_level that ends with NoTile has not called
\* canvas.finalize; finalize is called only in a run in which at least one
\* tile succeeded.
C37_NoFinalizeWithoutTile ==
    /\ (pc = "done" /\ result.kind = "NoTile") => ~FinalizeCalled
    /\ FinalizeCalled => state.successful_tiles > 0

\* every tile of a run failed and the run ended with NoTile, not finalised
C37_Witness ==
    pc = "done" /\ result.kind = "NoTile" /\ tally.err > 0 /\ ~finalized

\* C38: an add_tile call on the in-memory canvas that returns an error
\* leaves the canvas as it was: no pixel is modified and the captured ICC
\* profile is the one from before the call.
C38_RefusedTileLeavesCanvas ==
    [][(canvas'.adds = canvas.adds + 1 /\ lastAdd'[1].res = "Err") =>
           /\ canvas'.image = canvas.image
           /\ canvas'.icc_profile = canvas.icc_profile]_vars

\* the calls of dezoomify whose events are kept, each with what it returned
\* (nothing while it runs)
Calls ==
    { [log |-> main.log, returned |-> main.returned],
      [log |-> main.last_log, returned |-> main.last_returned] }

\* C34: a call of dezoomify whose selected image yields zero zoom levels
\* fails with NoLevels, and in that call no output file is reserved, no tile
\* buffer is created and no tile is fetched.
C34_NoLevelsBeforeAnyOutput ==
    \A c \in Calls :
        (\E i \in 1..Len(c.log) : c.log[i] = "no zoom levels") =>
            /\ c.returned = <<"NoLevels">>
            /\ \A i \in 1..Len(c.log) :
                  c.log[i] \notin {"reserve_output_file", "reserve_output_file failed",
                                   "create_tile_buffer", "fetch_tiles"}

\* one call found an image without zoom levels, another one fetched tiles
C34_Witness ==
    /\ \E c \in Calls : c.log = <<"no zoom levels">> /\ c.returned = <<"NoLevels">>
    /\ \E c \in Calls : \E i \in 1..Len(c.log) : c.log[i] = "fetch_tiles"

\* the call of process_bulk, and the indices of the images it discovered
Bulk == fn.out[1]

Discovered == [i \in 1..Bulk.discovered[1] |-> i - 1]

Recorded(stats) == stats.successful_images + stats.partial_downloads + stats.failed_images

\* C35 as stated: whenever process_bulk has returned after discovering its
\* images, it attempted every discovered image in discovery order, and its
\* statistics count every image once.
C35_EveryImageAttempted ==
    fn.op = "process_bulk" /\ fn.done /\ Bulk.discovered # << >> =>
        /\ Bulk.attempted = Discovered
        /\ Recorded(Bulk.stats) = Bulk.stats.total_images

\* C35: once process_bulk has discovered its images and obtained the working
\* directory, it attempts the images in discovery order whatever the outcome
\* of the earlier ones, each attempted image is counted in exactly one of the
\* three counters, and it returns Ok(stats) after the last image, with the
\* sum of the counters equal to total_images.
C35_EveryImageAttemptedInLoop ==
    fn.op = "process_bulk" /\ Bulk.base_dir =>
        /\ Bulk.attempted = SubSeq(Discovered, 1, Bulk.index)
        /\ Recorded(Bulk.stats) = Len(Bulk.attempted)
        /\ Bulk.stats.total_images = Bulk.discovered[1]
        /\ fn.done => /\ Bulk.result = <<"Ok">>
                      /\ Bulk.attempted = Discovered
                      /\ Recorded(Bulk.stats) = Bulk.stats.total_images

\* process_bulk returned after an image failed, a later one ended in a
\* partial download and the last one succeeded
C35_Witness ==
    /\ fn.op = "process_bulk" /\ fn.done /\ Bulk.result = <<"Ok">>
    /\ Bulk.discovered[1] >= 2
    /\ Bulk.stats.failed_images >= 1
    /\ Bulk.stats.successful_images + Bulk.stats.partial_downloads >= 1

\* what a URL list yields: for each URL in list order, the images of the
\* first dezoomer, in registry order, that answers with images or with a URL
\* list that yields an image
RECURSIVE ListYield(_)
Yields(url, d) ==
    \/ url[d].kind = "Images"
    \/ url[d].kind = "ImageUrls" /\ ListYield(url[d].urls) # << >>

FirstYielding(url) ==
    LET yielding == { d \in DOMAIN url : Yields(url, d) }
    IN  IF yielding = {} THEN 0 ELSE CHOOSE d \in yielding : \A e \in yielding : d <= e

UrlYield(url) ==
    LET d == FirstYielding(url)
    IN  IF d = 0 THEN << >>
        ELSE IF url[d].kind = "Images" THEN url[d].images
        ELSE ListYield(url[d].urls)

ListYield(urls) ==
    IF urls = << >> THEN << >> ELSE UrlYield(urls[1]) \o ListYield(Tail(urls))

C39_FoundLevelsAreReturned ==
    load.entry = "zoom_levels" /\ load.ret # << >> =>
        /\ load.ret[1].kind = "Ok" =>
              load.ret[1].value = [n \in 1..Len(auto.found) |-> auto.found[n].name]
        /\ load.ret[1].kind = "Err" => auto.found = << >>

\* zoom_levels returned the levels of two candidates, of which the first
\* succeeded in a pass that returned NeedsData
C39_Witness ==
    /\ load.entry = "zoom_levels" /\ load.ret # << >> /\ load.ret[1].kind = "Ok"
    /\ Len(auto.found) >= 2
    /\ auto.found[1].pass < auto.found[2].pass

\* C40: when every candidate answers NeedsData a bounded number of times
\* and every fetch completes, the NeedsData loop of get_dezoomer_result
\* around the auto dezoomer ends, with a result or another error; the
\* pending list grows by one URI only when a candidate answers NeedsData,
\* and every pass that asks for data takes one URI off it.
C40_NeedsDataLoopTerminates ==
    /\ <>(load.pc = "done")
    /\ [][Len(auto'.needs_uris) > Len(auto.needs_uris) =>
              /\ Len(auto'.needs_uris) = Len(auto.needs_uris) + 1
              /\ auto'.visited = auto.visited + 1
              /\ auto'.last[1].resp.kind = "NeedsData"]_vars
    /\ [][load.pc = "in_call" /\ load'.pc = "fetch" =>
              Len(auto'.needs_uris) = Len(auto.needs_uris) - 1]_vars

\* the loop ended after passes in which no candidate asked any more and
\* that took the URIs left pending off the list one by one
C40_Witness ==
    /\ load.pc = "done"
    /\ load.calls >= MaxAsks + 2

====
